---- MODULE Spec2Model ----
(***************************************************************************)
(* Model of the sucredb vnode (src/src/vnode.rs): the request quorum path, *)
(* the vnode status state machine and the sync/bootstrap sessions, over a  *)
(* lossy, reordering message fabric.                                       *)
(*                                                                         *)
(* One vnode number is modelled; vnode[n] is the VNode object that node n  *)
(* holds for it.  Every handler of VNode is an operator from a handler     *)
(* context (the vnode, the messages sent, the client responses, the cookie *)
(* generator, a panic marker) to a handler context, so that a handler that *)
(* calls another (handler_tick -> on_tick -> send_next ...) is one action. *)
(***************************************************************************)
EXTENDS Integers, Sequences, FiniteSets, TLC

VARIABLES
    vnode,      \* [Node -> VNode]: state (VNodeState), syncs, inflight
    meta,       \* [Node -> SavedVNodeState | NoMeta]: db.meta_storage entry of the vnode
    net,        \* set of fabric messages in flight
    now,        \* Instant::now(), in milliseconds
    dht,        \* db.dht: [owners, pending], the replicas of the vnode and the joining ones
    responses,  \* [Token -> sequence of client responses], db.respond_*
    nextCookie, \* gen_cookie: cookies are fresh (128 random bits in the code)
    nextToken,  \* client tokens handed to do_get / do_set
    issued,     \* history: [Node -> set of versions returned by clocks.event(self)]
    panicked,   \* [Node -> name of the failed assertion, or NoPanic]
    up,         \* [Node -> BOOLEAN]: the process holding the VNode object is running
    quiet_since, \* history: [Node -> [cookie of a receiver session -> the time it
                \* was created or last took a SyncSend]]
    fabric      \* the connections of one node to one peer, see Fabric below

vars == <<vnode, meta, net, now, dht, responses, nextCookie, nextToken, issued,
          panicked, up, quiet_since, fabric>>

----------------------------------------------------------------------------
(* Inputs and bounds *)

Node == {1, 2, 3}
Key == {"k1", "k2"}
Value == {"a", "b"}

MaxToken == 2          \* client requests in one behaviour

\* vnode.rs constants
RECOVER_FAST_FORWARD == 1000000
SYNC_INFLIGHT_MAX == 10
SYNC_INFLIGHT_TIMEOUT_MS == 2000
SYNC_TIMEOUT_MS == (SYNC_INFLIGHT_TIMEOUT_MS * 31) \div 10
ZOMBIE_TIMEOUT_MS == SYNC_TIMEOUT_MS
PEER_LOG_SIZE == (1024 * 1024) \div (32 + 16)
REQUEST_TIMEOUT_MS == 1000

Status == {"Ready", "Recover", "Bootstrap", "Zombie", "Absent"}

\* Option: None, or Some(v)
None == [none |-> TRUE]
Some(v) == [some |-> v]
NoMeta == [none |-> TRUE]
NoPanic == "NoPanic"

Max(a, b) == IF a >= b THEN a ELSE b
Min(a, b) == IF a <= b THEN a ELSE b

MapPut(f, k, v) == (k :> v) @@ f
MapDel(f, k) == [x \in DOMAIN f \ {k} |-> f[x]]
EmptyMap == <<>>

----------------------------------------------------------------------------
(* BitmappedVersion / BitmappedVersionVector (version_vector module).      *)
(* A BitmappedVersion is [base, bits]: every version <= base is present,   *)
(* bits are the present versions above base + 1.                           *)

BVEmpty == [base |-> 0, bits |-> {}]

RECURSIVE BVNorm(_)
BVNorm(bv) ==
    IF bv.base + 1 \in bv.bits
    THEN BVNorm([base |-> bv.base + 1, bits |-> bv.bits \ {bv.base + 1}])
    ELSE [base |-> bv.base, bits |-> {v \in bv.bits : v > bv.base}]

BVAdd(bv, v) == BVNorm([base |-> bv.base, bits |-> bv.bits \cup {v}])

BVJoin(a, b) == BVNorm([base |-> Max(a.base, b.base), bits |-> a.bits \cup b.bits])

BVContains(bv, v) == v <= bv.base \/ v \in bv.bits

BVMaxKnown(bv) == IF bv.bits = {} THEN bv.base
                  ELSE CHOOSE m \in bv.bits : \A v \in bv.bits : v <= m

\* advance(node, n): fast-forwards base by n
BVAdvance(bv, n) == BVNorm([base |-> bv.base + n, bits |-> bv.bits])

\* a <= b as sets of versions
BVSubset(a, b) == a.base <= b.base /\ \A v \in a.bits : BVContains(b, v)

BVVNew == [n \in Node |-> BVEmpty]

\* event(node): the next contiguous version, recorded in the clock
BVVEventVersion(bvv, n) == bvv[n].base + 1
BVVEvent(bvv, n) == [bvv EXCEPT ![n] = BVAdd(@, bvv[n].base + 1)]

BVVAdd(bvv, n, v) == [bvv EXCEPT ![n] = BVAdd(@, v)]
BVVAdvance(bvv, n, by) == [bvv EXCEPT ![n] = BVAdvance(@, by)]
BVVJoin(a, b) == [n \in Node |-> BVJoin(a[n], b[n])]
BVVMerge(a, b) == [n \in Node |-> BVJoin(a[n], b[n])]
BVVFromVersion(n, bv) == [m \in Node |-> IF m = n THEN bv ELSE BVEmpty]
BVVSubset(a, b) == \A n \in Node : BVSubset(a[n], b[n])

----------------------------------------------------------------------------
(* DottedCausalContainer (version_vector module): dots with values, and a  *)
(* version vector vv summarising the dominated dots.  A dot is             *)
(* <<node, version, value>>.                                               *)

VVNew == [n \in Node |-> 0]
VVMerge(a, b) == [n \in Node |-> Max(a[n], b[n])]

DccNew == [dots |-> {}, vv |-> VVNew]

DccAdd(d, n, v, val) ==
    [dots |-> d.dots \cup {<<n, v, val>>}, vv |-> [d.vv EXCEPT ![n] = Max(@, v)]]

DccDiscard(d, vv) ==
    [dots |-> {x \in d.dots : x[2] > vv[x[1]]}, vv |-> VVMerge(d.vv, vv)]

DccSync(a, b) ==
    [dots |-> (a.dots \cap b.dots)
                \cup {x \in a.dots : x[2] > b.vv[x[1]]}
                \cup {x \in b.dots : x[2] > a.vv[x[1]]},
     vv |-> VVMerge(a.vv, b.vv)]

DccStrip(d, bvv) ==
    [dots |-> d.dots,
     vv |-> [n \in Node |-> IF d.vv[n] <= bvv[n].base THEN 0 ELSE d.vv[n]]]

DccFill(d, bvv) ==
    [dots |-> d.dots, vv |-> [n \in Node |-> Max(d.vv[n], bvv[n].base)]]

DccVersions(d) == {<<x[1], x[2]>> : x \in d.dots}

RECURSIVE BVVAddAll(_, _)
BVVAddAll(bvv, versions) ==
    IF versions = {} THEN bvv
    ELSE LET x == CHOOSE y \in versions : TRUE
         IN BVVAddAll(BVVAdd(bvv, x[1], x[2]), versions \ {x})

DccAddToBvv(d, bvv) == BVVAddAll(bvv, DccVersions(d))

DccIsEmpty(d) == d.dots = {}

----------------------------------------------------------------------------
(* VNodePeer: the bounded log Version -> Key kept for one node.            *)

PeerNew == [knowledge |-> 0, log |-> EmptyMap]

PeerMinVersion(p) ==
    IF DOMAIN p.log = {} THEN 0
    ELSE CHOOSE m \in DOMAIN p.log : \A v \in DOMAIN p.log : m <= v

PeerLog(p, version, key) ==
    LET min == PeerMinVersion(p)
        ins == MapPut(p.log, version, key)
    IN IF version > min
       THEN [p EXCEPT !.log = IF Cardinality(DOMAIN ins) > PEER_LOG_SIZE
                               THEN MapDel(ins, min) ELSE ins]
       ELSE p

PeerGet(p, version) == IF version \in DOMAIN p.log THEN Some(p.log[version]) ELSE None

----------------------------------------------------------------------------
(* The handler context.  vn is the VNode, meta its saved state, out the    *)
(* messages handed to fabric.send_msg, resp the client responses, cookie   *)
(* the cookie generator, events the versions clocks.event returned, ret    *)
(* the value an operation returns, panic the assertion that failed.        *)

Ctx(n) == [vn |-> vnode[n], meta |-> meta[n], out |-> {}, resp |-> <<>>,
           cookie |-> nextCookie, events |-> <<>>, ret |-> None, panic |-> NoPanic,
           promoted |-> {}, routes |-> Node]

\* the same with no entry in fabric.connections for the nodes of lost
CtxNoRoute(n, lost) == [Ctx(n) EXCEPT !.routes = Node \ lost]

\* db.dht.nodes_for_vnode(num, include_pending)
nodes_for_vnode(include_pending) ==
    IF include_pending THEN dht.owners \cup dht.pending ELSE dht.owners

Alive(ctx) == ctx.panic = NoPanic

Panic(ctx, what) == IF Alive(ctx) THEN [ctx EXCEPT !.panic = what] ELSE ctx

\* db.fabric.send_msg(to, msg).unwrap(): Err(NoRoute) without a connection to
\* the peer, and unwrap panics on it; routes holds the peers with a connection
\* (every node, in the runs of the actions)
Send(ctx, msg) ==
    IF ~Alive(ctx) THEN ctx
    ELSE IF msg.to \notin ctx.routes THEN Panic(ctx, "send_msg: NoRoute")
    ELSE [ctx EXCEPT !.out = @ \cup {msg}]

\* db.respond_get / respond_set / respond_error
Respond(ctx, r) == IF Alive(ctx) THEN [ctx EXCEPT !.resp = Append(@, r)] ELSE ctx

\* gen_cookie
GenCookie(ctx) == [ctx EXCEPT !.cookie = @ + 1, !.ret = ctx.cookie]

----------------------------------------------------------------------------
(* VNodeState *)

\* set_status
set_status(ctx, new) ==
    LET vn == ctx.vn IN
    IF ~Alive(ctx) \/ new = vn.status THEN ctx
    ELSE IF new = "Ready" /\ vn.status = "Recover" /\ vn.pending_recoveries # 0
         THEN Panic(ctx, "set_status: pending_recoveries")
    ELSE IF new = "Absent" /\ vn.pending_recoveries # 0
         THEN Panic(ctx, "set_status: pending_recoveries")
    ELSE IF new = "Absent" /\ vn.sync_nodes # {}
         THEN Panic(ctx, "set_status: sync_nodes")
    ELSE [ctx EXCEPT !.vn =
            [vn EXCEPT !.log = IF new = "Absent" THEN PeerNew ELSE @,
                       !.peers = IF new = "Absent" THEN [m \in Node |-> PeerNew] ELSE @,
                       !.last_status_change = now,
                       !.status = new]]

\* VNodeState::new_empty
new_empty(status) ==
    [status |-> status, last_status_change |-> now, clocks |-> BVVNew,
     peers |-> [m \in Node |-> PeerNew], log |-> PeerNew, storage |-> EmptyMap,
     unflushed_coord_writes |-> 0, sync_nodes |-> {}, pending_recoveries |-> 0,
     syncs |-> EmptyMap, inflight |-> EmptyMap]

\* VNodeState::save
save(ctx, shutdown) ==
    IF ~Alive(ctx) THEN ctx
    ELSE [ctx EXCEPT !.meta =
            [peers |-> IF shutdown THEN ctx.vn.peers ELSE [m \in Node |-> PeerNew],
             clocks |-> ctx.vn.clocks,
             log |-> IF shutdown THEN ctx.vn.log ELSE PeerNew,
             clean_shutdown |-> shutdown]]

\* storage_get
storage_get(vn, key) ==
    DccFill(IF key \in DOMAIN vn.storage THEN vn.storage[key] ELSE DccNew, vn.clocks)

\* storage.set / storage.del of the stripped container
StoragePut(storage, key, dcc) ==
    IF DccIsEmpty(dcc) THEN MapDel(storage, key) ELSE MapPut(storage, key, dcc)

\* mutant: the client's version vector is not applied to the stored container
storage_set_local_keep(ctx, self, key, value_opt, vv) ==
    IF ~Alive(ctx) THEN ctx ELSE
    LET vn == ctx.vn
        dcc0 == storage_get(vn, key)
        dot == BVVEventVersion(vn.clocks, self)
        clocks1 == BVVEvent(vn.clocks, self)
        dcc1 == IF value_opt # None THEN DccAdd(dcc0, self, dot, value_opt.some) ELSE dcc0
        dcc2 == DccStrip(dcc1, clocks1)
        vn1 == [vn EXCEPT !.clocks = clocks1,
                          !.storage = StoragePut(@, key, dcc2),
                          !.log = PeerLog(@, dot, key),
                          !.unflushed_coord_writes = @ + 1]
    IN [ctx EXCEPT !.vn = vn1, !.events = Append(@, dot),
                   !.ret = DccFill(dcc2, clocks1)]

\* storage_set_local; ret is the container returned
storage_set_local(ctx, self, key, value_opt, vv) ==
    IF ~Alive(ctx) THEN ctx ELSE
    LET vn == ctx.vn
        dcc0 == DccDiscard(storage_get(vn, key), vv)
        dot == BVVEventVersion(vn.clocks, self)
        clocks1 == BVVEvent(vn.clocks, self)
        dcc1 == IF value_opt # None THEN DccAdd(dcc0, self, dot, value_opt.some) ELSE dcc0
        dcc2 == DccStrip(dcc1, clocks1)
        unfl == vn.unflushed_coord_writes + 1
        flush == unfl >= PEER_LOG_SIZE \div 2
        vn1 == [vn EXCEPT !.clocks = clocks1,
                          !.storage = StoragePut(@, key, dcc2),
                          !.log = PeerLog(@, dot, key),
                          !.unflushed_coord_writes = IF flush THEN 0 ELSE unfl]
        ctx1 == [ctx EXCEPT !.vn = vn1, !.events = Append(@, dot),
                            !.ret = DccFill(dcc2, clocks1)]
    IN IF flush THEN [save(ctx1, FALSE) EXCEPT !.ret = ctx1.ret] ELSE ctx1

RECURSIVE LogVersions(_, _, _, _)
LogVersions(vn, self, key, versions) ==
    IF versions = {} THEN vn
    ELSE LET x == CHOOSE y \in versions : \A z \in versions :
                      y[1] < z[1] \/ (y[1] = z[1] /\ y[2] <= z[2])
             vn1 == IF x[1] = self
                    THEN [vn EXCEPT !.log = PeerLog(@, x[2], key)]
                    ELSE [vn EXCEPT !.peers[x[1]] = PeerLog(@, x[2], key)]
         IN LogVersions(vn1, self, key, versions \ {x})

\* mutant: the remote write is also counted as an event of this node
storage_set_remote_event(ctx, self, key, new_dcc) ==
    IF ~Alive(ctx) THEN ctx ELSE
    LET vn == ctx.vn
        old_dcc == storage_get(vn, key)
        clocks1 == BVVEvent(DccAddToBvv(new_dcc, vn.clocks), self)
        dcc1 == DccStrip(DccSync(new_dcc, old_dcc), clocks1)
        vn1 == [vn EXCEPT !.clocks = clocks1, !.storage = StoragePut(@, key, dcc1)]
    IN [ctx EXCEPT !.vn = LogVersions(vn1, self, key, DccVersions(dcc1))]

\* storage_set_remote
storage_set_remote(ctx, self, key, new_dcc) ==
    IF ~Alive(ctx) THEN ctx ELSE
    LET vn == ctx.vn
        old_dcc == storage_get(vn, key)
        clocks1 == DccAddToBvv(new_dcc, vn.clocks)
        dcc1 == DccStrip(DccSync(new_dcc, old_dcc), clocks1)
        vn1 == [vn EXCEPT !.clocks = clocks1, !.storage = StoragePut(@, key, dcc1)]
    IN [ctx EXCEPT !.vn = LogVersions(vn1, self, key, DccVersions(dcc1))]

----------------------------------------------------------------------------
(* Fabric messages (fabric_msg module).  One vnode number is modelled, so  *)
(* the vnode field of the messages is left out.                            *)

\* Result: Ok(DCC) of RemoteGetAck, Ok(()) of RemoteSetAck, Ok(BVV) of SyncFin, Err
OkDcc(d) == [ok |-> TRUE, dcc |-> d]
OkUnit == [ok |-> TRUE]
OkBvv(b) == [ok |-> TRUE, bvv |-> b]
Err(e) == [ok |-> FALSE, err |-> e]

MsgRemoteGet(from, to, cookie, key) ==
    [type |-> "RemoteGet", from |-> from, to |-> to, cookie |-> cookie, key |-> key]
MsgRemoteGetAck(from, to, cookie, result) ==
    [type |-> "RemoteGetAck", from |-> from, to |-> to, cookie |-> cookie,
     result |-> result]
MsgRemoteSet(from, to, cookie, key, container) ==
    [type |-> "RemoteSet", from |-> from, to |-> to, cookie |-> cookie, key |-> key,
     container |-> container]
MsgRemoteSetAck(from, to, cookie, result) ==
    [type |-> "RemoteSetAck", from |-> from, to |-> to, cookie |-> cookie,
     result |-> result]
MsgSyncStart(from, to, cookie, target, clock_in_peer) ==
    [type |-> "SyncStart", from |-> from, to |-> to, cookie |-> cookie,
     target |-> target, clock_in_peer |-> clock_in_peer]
MsgSyncSend(from, to, cookie, seq, key, container) ==
    [type |-> "SyncSend", from |-> from, to |-> to, cookie |-> cookie, seq |-> seq,
     key |-> key, container |-> container]
MsgSyncAck(from, to, cookie, seq) ==
    [type |-> "SyncAck", from |-> from, to |-> to, cookie |-> cookie, seq |-> seq]
MsgSyncFin(from, to, cookie, result) ==
    [type |-> "SyncFin", from |-> from, to |-> to, cookie |-> cookie, result |-> result]

----------------------------------------------------------------------------
(* InFlightMap (inflightmap module): key -> value with a deadline field    *)
(* expire; an entry is expired once now has reached its deadline.          *)

Expired(m, t) == {k \in DOMAIN m : m[k].expire <= t}

\* touch_expired(now, timeout) until it returns None: every expired entry re-armed
TouchExpired(m, t, timeout) ==
    [k \in DOMAIN m |-> IF m[k].expire <= t THEN [m[k] EXCEPT !.expire = timeout]
                        ELSE m[k]]

----------------------------------------------------------------------------
(* Synchronization *)

KeySeq == <<"k1", "k2">>     \* the storage iterator's key order

RECURSIVE SortedSeq(_)
SortedSeq(S) ==
    IF S = {} THEN <<>>
    ELSE LET m == CHOOSE x \in S : \A y \in S : x <= y
         IN <<m>> \o SortedSeq(S \ {m})

RECURSIVE MapSeq(_, _)
MapSeq(seq, f) == IF seq = <<>> THEN <<>> ELSE <<f[Head(seq)]>> \o MapSeq(Tail(seq), f)

\* state.storage.iterator(): the stored (key, container) pairs in key order
StorageScan(storage) ==
    LET keys == SelectSeq(KeySeq, LAMBDA k : k \in DOMAIN storage)
    IN MapSeq(keys, [k \in DOMAIN storage |-> <<k, storage[k]>>])

\* new_bootstrap_sender
new_bootstrap_sender(vn, from, msg) ==
    [kind |-> "BootstrapSender", cookie |-> msg.cookie, peer |-> from,
     clocks_snapshot |-> vn.clocks,
     iterator |-> [mode |-> "scan", items |-> StorageScan(vn.storage)],
     inflight |-> EmptyMap, count |-> 0, last_receive |-> now]

\* clock_snapshot.delta(clock_in_peer).filter_map(|v| log_snapshot.get(v))
DeltaKeys(clock_snapshot, clock_in_peer, log_snapshot) ==
    LET vs == {v \in DOMAIN log_snapshot.log :
                  BVContains(clock_snapshot, v) /\ ~BVContains(clock_in_peer, v)}
    IN MapSeq(SortedSeq(vs), log_snapshot.log)

\* new_sync_sender
new_sync_sender(vn, self, from, msg) ==
    LET target == msg.target.some
        clock_in_peer == msg.clock_in_peer.some
        clock_snapshot == vn.clocks[self]
        log_snapshot == IF target = self THEN vn.log ELSE vn.peers[target]
        iterator ==
            IF PeerMinVersion(log_snapshot) <= clock_in_peer.base
            THEN [mode |-> "log",
                  items |-> DeltaKeys(clock_snapshot, clock_in_peer, log_snapshot)]
            ELSE [mode |-> "scan",
                  items |-> SelectSeq(StorageScan(vn.storage),
                               LAMBDA kd : \E x \in DccVersions(kd[2]) :
                                   x[1] = target /\ x[2] > clock_in_peer.base)]
    IN [kind |-> "SyncSender", clock_in_peer |-> clock_in_peer,
        clock_snapshot |-> clock_snapshot, iterator |-> iterator,
        inflight |-> EmptyMap, cookie |-> msg.cookie, peer |-> from,
        target |-> target, count |-> 0, last_receive |-> now]

IsReceiver(s) == s.kind \in {"SyncReceiver", "BootstrapReceiver"}
IsSender(s) == s.kind \in {"SyncSender", "BootstrapSender"}

\* send_start
send_start(ctx, self, cookie) ==
    IF ~Alive(ctx) THEN ctx ELSE
    LET s == ctx.vn.syncs[cookie]
        msg == IF s.kind = "SyncReceiver"
               THEN MsgSyncStart(self, s.peer, cookie, Some(s.target),
                                 Some(s.clock_in_peer))
               ELSE MsgSyncStart(self, s.peer, cookie, None, None)
    IN Send([ctx EXCEPT !.vn.syncs[cookie].last_receive = now], msg)

\* send_success_fin
send_success_fin(ctx, self, cookie) ==
    IF ~Alive(ctx) THEN ctx ELSE
    LET s == ctx.vn.syncs[cookie]
        clocks_snapshot == IF s.kind = "SyncSender"
                           THEN BVVFromVersion(s.target, s.clock_snapshot)
                           ELSE s.clocks_snapshot
    IN Send(ctx, MsgSyncFin(self, s.peer, cookie, OkBvv(clocks_snapshot)))

\* iterator(&state.storage): [item |-> Some(<<key, container>>) or None, iterator |-> rest]
RECURSIVE IterNext(_, _)
IterNext(it, storage) ==
    IF it.items = <<>> THEN [item |-> None, iterator |-> it]
    ELSE IF it.mode = "scan"
         THEN [item |-> Some(Head(it.items)),
               iterator |-> [it EXCEPT !.items = Tail(@)]]
    ELSE LET k == Head(it.items)
             rest == [it EXCEPT !.items = Tail(@)]
         IN IF k \in DOMAIN storage
            THEN [item |-> Some(<<k, storage[k]>>), iterator |-> rest]
            ELSE IterNext(rest, storage)

\* mutant: the loop sends whatever the iterator yields, whatever is in flight
RECURSIVE SendWindowAll(_, _, _)
SendWindowAll(ctx, self, cookie) ==
    LET s == ctx.vn.syncs[cookie]
        nx == IterNext(s.iterator, ctx.vn.storage)
    IN IF nx.item = None THEN [ctx EXCEPT !.vn.syncs[cookie].iterator = nx.iterator]
       ELSE SendWindowAll(
              Send([ctx EXCEPT !.vn.syncs[cookie] =
                      [s EXCEPT !.iterator = nx.iterator,
                                !.inflight = MapPut(@, s.count,
                                    [key |-> nx.item.some[1], dcc |-> nx.item.some[2],
                                     expire |-> now + SYNC_INFLIGHT_TIMEOUT_MS]),
                                !.count = @ + 1]],
                   MsgSyncSend(self, s.peer, cookie, s.count, nx.item.some[1],
                               nx.item.some[2])),
              self, cookie)

\* send_next, second loop: fill the window from the iterator
RECURSIVE SendWindow(_, _, _)
SendWindow(ctx, self, cookie) ==
    LET s == ctx.vn.syncs[cookie]
        nx == IterNext(s.iterator, ctx.vn.storage)
    IN IF Cardinality(DOMAIN s.inflight) >= SYNC_INFLIGHT_MAX THEN ctx
       ELSE IF nx.item = None THEN [ctx EXCEPT !.vn.syncs[cookie].iterator = nx.iterator]
       ELSE SendWindow(
              Send([ctx EXCEPT !.vn.syncs[cookie] =
                      [s EXCEPT !.iterator = nx.iterator,
                                !.inflight = MapPut(@, s.count,
                                    [key |-> nx.item.some[1], dcc |-> nx.item.some[2],
                                     expire |-> now + SYNC_INFLIGHT_TIMEOUT_MS]),
                                !.count = @ + 1]],
                   MsgSyncSend(self, s.peer, cookie, s.count, nx.item.some[1],
                               nx.item.some[2])),
              self, cookie)

\* mutant: expired entries are re-armed but not sent again
send_next_quiet(ctx, self, cookie) ==
    IF ~Alive(ctx) THEN ctx ELSE
    LET timeout == now + SYNC_INFLIGHT_TIMEOUT_MS
        ctx1 == [ctx EXCEPT !.vn.syncs[cookie].inflight = TouchExpired(@, now, timeout)]
        ctx2 == SendWindow(ctx1, self, cookie)
    IN IF ctx2.vn.syncs[cookie].inflight # EmptyMap THEN ctx2
       ELSE send_success_fin(ctx2, self, cookie)

\* mutant: the success SyncFin follows the last SyncSend without waiting for acks
send_next_early(ctx, self, cookie) ==
    IF ~Alive(ctx) THEN ctx ELSE
    LET s == ctx.vn.syncs[cookie]
        timeout == now + SYNC_INFLIGHT_TIMEOUT_MS
        resent == {MsgSyncSend(self, s.peer, cookie, seq, s.inflight[seq].key,
                               s.inflight[seq].dcc) : seq \in Expired(s.inflight, now)}
        ctx1 == [ctx EXCEPT !.out = @ \cup resent,
                            !.vn.syncs[cookie].inflight = TouchExpired(@, now, timeout)]
        ctx2 == SendWindow(ctx1, self, cookie)
    IN IF ctx2.vn.syncs[cookie].iterator.items # <<>> THEN ctx2
       ELSE send_success_fin(ctx2, self, cookie)

\* send_next
send_next(ctx, self, cookie) ==
    IF ~Alive(ctx) THEN ctx ELSE
    LET s == ctx.vn.syncs[cookie]
        timeout == now + SYNC_INFLIGHT_TIMEOUT_MS
        resent == {MsgSyncSend(self, s.peer, cookie, seq, s.inflight[seq].key,
                               s.inflight[seq].dcc) : seq \in Expired(s.inflight, now)}
        ctx1 == [ctx EXCEPT !.out = @ \cup resent,
                            !.vn.syncs[cookie].inflight = TouchExpired(@, now, timeout)]
        ctx2 == SendWindow(ctx1, self, cookie)
    IN IF ctx2.vn.syncs[cookie].inflight # EmptyMap THEN ctx2
       ELSE send_success_fin(ctx2, self, cookie)

\* on_cancel
on_cancel(ctx, self, s) ==
    Send(ctx, MsgSyncFin(self, s.peer, s.cookie, Err("BadVNodeStatus")))

\* mutant: the end of a reverse receiver is not counted
on_remove_no_count(ctx, self, s) ==
    IF ~Alive(ctx) THEN ctx ELSE
    LET ctx1 == IF s.kind = "SyncReceiver" /\ s.target = s.peer
                THEN [ctx EXCEPT !.vn.sync_nodes = @ \ {s.peer}]
                ELSE ctx
    IN IF IsReceiver(s)
       THEN Send(ctx1, MsgSyncFin(self, s.peer, s.cookie, Err("BadVNodeStatus")))
       ELSE ctx1

\* mutant: the peer of a removed receiver stays in sync_nodes
on_remove_keep_node(ctx, self, s) ==
    IF ~Alive(ctx) THEN ctx
    ELSE IF IsReceiver(s)
    THEN Send(ctx, MsgSyncFin(self, s.peer, s.cookie, Err("BadVNodeStatus")))
    ELSE ctx

\* on_remove, of a session already taken out of syncs
on_remove(ctx, self, s) ==
    IF ~Alive(ctx) THEN ctx ELSE
    LET vn == ctx.vn
        ctx1 ==
            IF s.kind # "SyncReceiver" THEN ctx
            ELSE IF s.target = s.peer
                 THEN [ctx EXCEPT !.vn.sync_nodes = @ \ {s.peer}]
            ELSE IF vn.status # "Recover" THEN Panic(ctx, "on_remove: status")
            ELSE LET c == [ctx EXCEPT !.vn.pending_recoveries = @ - 1]
                 IN IF c.vn.pending_recoveries = 0
                    THEN LET r == set_status(c, "Ready")
                         IN IF Alive(r)
                            THEN [r EXCEPT !.vn.clocks =
                                    BVVAdvance(@, self, RECOVER_FAST_FORWARD)]
                            ELSE r
                    ELSE c
    IN IF IsReceiver(s)
       THEN Send(ctx1, MsgSyncFin(self, s.peer, s.cookie, Err("BadVNodeStatus")))
       ELSE ctx1

Elapsed(t) == now - t

\* mutant: a sender that timed out runs the send loop once more
on_tick_last_send(ctx, self, cookie) ==
    IF ~Alive(ctx) THEN ctx ELSE
    LET s == ctx.vn.syncs[cookie] IN
    IF IsSender(s)
    THEN IF Elapsed(s.last_receive) > SYNC_TIMEOUT_MS
         THEN [send_next(ctx, self, cookie) EXCEPT !.ret = "Done"]
         ELSE [send_next(ctx, self, cookie) EXCEPT !.ret = "Continue"]
    ELSE IF Elapsed(s.last_receive) > SYNC_TIMEOUT_MS
         THEN [ctx EXCEPT !.ret = IF s.kind = "BootstrapReceiver"
                                   THEN "RetryBoostrap" ELSE "Done"]
    ELSE IF s.count = 0 /\ Elapsed(s.last_receive) > SYNC_INFLIGHT_TIMEOUT_MS
         THEN [send_start(ctx, self, cookie) EXCEPT !.ret = "Continue"]
    ELSE [ctx EXCEPT !.ret = "Continue"]

\* on_tick; ret is the SyncResult
on_tick(ctx, self, cookie) ==
    IF ~Alive(ctx) THEN ctx ELSE
    LET s == ctx.vn.syncs[cookie] IN
    IF IsSender(s)
    THEN IF Elapsed(s.last_receive) > SYNC_TIMEOUT_MS
         THEN [ctx EXCEPT !.ret = "Done"]
         ELSE [send_next(ctx, self, cookie) EXCEPT !.ret = "Continue"]
    ELSE IF Elapsed(s.last_receive) > SYNC_TIMEOUT_MS
         THEN [ctx EXCEPT !.ret = IF s.kind = "BootstrapReceiver"
                                   THEN "RetryBoostrap" ELSE "Done"]
    ELSE IF s.count = 0 /\ Elapsed(s.last_receive) > SYNC_INFLIGHT_TIMEOUT_MS
         THEN [send_start(ctx, self, cookie) EXCEPT !.ret = "Continue"]
    ELSE [ctx EXCEPT !.ret = "Continue"]

\* on_start
on_start(ctx, self, cookie) == send_next(ctx, self, cookie)

\* on_fin; ret is the SyncResult
on_fin(ctx, self, cookie, msg) ==
    IF ~Alive(ctx) THEN ctx ELSE
    LET s == ctx.vn.syncs[cookie]
        echo == MsgSyncFin(self, s.peer, msg.cookie, msg.result)
    IN
    IF s.kind = "SyncReceiver"
    THEN IF msg.result.ok
         THEN [Send(save([ctx EXCEPT !.vn.clocks = BVVJoin(@, msg.result.bvv)], FALSE),
                    echo) EXCEPT !.ret = "Done"]
         ELSE [ctx EXCEPT !.ret = "Done"]
    ELSE IF s.kind = "BootstrapReceiver"
    THEN IF msg.result.ok
         THEN [Send(set_status(
                      save([ctx EXCEPT !.vn.clocks = BVVMerge(@, msg.result.bvv)], FALSE),
                      "Ready"),
                    echo) EXCEPT !.ret = "Done", !.promoted = @ \cup {self}]
         ELSE [ctx EXCEPT !.ret = "RetryBoostrap"]
    ELSE [ctx EXCEPT !.ret = "Done"]

\* mutant: the ack leaves without the entry being stored
on_send_ack_only(ctx, self, cookie, msg) ==
    IF ~Alive(ctx) THEN ctx ELSE
    IF ~IsReceiver(ctx.vn.syncs[cookie]) THEN Panic(ctx, "on_send: unreachable") ELSE
    LET s == ctx.vn.syncs[cookie]
        ctx2 == Send(ctx, MsgSyncAck(self, s.peer, msg.cookie, msg.seq))
    IN [ctx2 EXCEPT !.vn.syncs[cookie].count = @ + 1,
                    !.vn.syncs[cookie].last_receive = now]

\* on_send
on_send(ctx, self, cookie, msg) ==
    IF ~Alive(ctx) THEN ctx ELSE
    IF ~IsReceiver(ctx.vn.syncs[cookie]) THEN Panic(ctx, "on_send: unreachable") ELSE
    LET s == ctx.vn.syncs[cookie]
        ctx1 == storage_set_remote(ctx, self, msg.key, msg.container)
        ctx2 == Send(ctx1, MsgSyncAck(self, s.peer, msg.cookie, msg.seq))
    IN [ctx2 EXCEPT !.vn.syncs[cookie].count = @ + 1,
                    !.vn.syncs[cookie].last_receive = now]

\* on_ack
on_ack(ctx, self, cookie, msg) ==
    IF ~Alive(ctx) THEN ctx ELSE
    IF ~IsSender(ctx.vn.syncs[cookie]) THEN Panic(ctx, "on_ack: unreachable") ELSE
    send_next([ctx EXCEPT !.vn.syncs[cookie].inflight = MapDel(@, msg.seq),
                          !.vn.syncs[cookie].last_receive = now],
              self, cookie)

----------------------------------------------------------------------------
(* VNode *)

\* ReqState::new, with its deadline in the InFlightMap
ReqStateNew(token, nodes, expire) ==
    [required |-> 1, total |-> nodes, replies |-> 0, succesfull |-> 0,
     proxied |-> FALSE, container |-> DccNew, token |-> token, expire |-> expire]

\* mutant: any reply completes the request
ReqDoneAnyReply(st) == st.replies >= 1

\* the quorum test of process_get / process_set
ReqDone(st) == st.succesfull = st.required \/ st.replies = st.total

\* mutant: the ReqState is answered but stays in the map
process_get_keep(ctx, cookie, container_opt) ==
    IF ~Alive(ctx) \/ cookie \notin DOMAIN ctx.vn.inflight THEN ctx ELSE
    LET st0 == ctx.vn.inflight[cookie]
        st == [st0 EXCEPT !.replies = @ + 1,
                          !.container = IF container_opt # None
                                        THEN DccSync(@, container_opt.some) ELSE @,
                          !.succesfull = IF container_opt # None THEN @ + 1 ELSE @]
    IN IF ReqDone(st)
       THEN Respond([ctx EXCEPT !.vn.inflight[cookie] = st],
                    [token |-> st.token, kind |-> "get", container |-> st.container])
       ELSE [ctx EXCEPT !.vn.inflight[cookie] = st]

\* process_get
process_get(ctx, cookie, container_opt) ==
    IF ~Alive(ctx) \/ cookie \notin DOMAIN ctx.vn.inflight THEN ctx ELSE
    LET st0 == ctx.vn.inflight[cookie]
        st == [st0 EXCEPT !.replies = @ + 1,
                          !.container = IF container_opt # None
                                        THEN DccSync(@, container_opt.some) ELSE @,
                          !.succesfull = IF container_opt # None THEN @ + 1 ELSE @]
    IN IF ReqDone(st)
       THEN Respond([ctx EXCEPT !.vn.inflight = MapDel(@, cookie)],
                    [token |-> st.token, kind |-> "get", container |-> st.container])
       ELSE [ctx EXCEPT !.vn.inflight[cookie] = st]

\* process_set
process_set(ctx, cookie, succesfull) ==
    IF ~Alive(ctx) \/ cookie \notin DOMAIN ctx.vn.inflight THEN ctx ELSE
    LET st0 == ctx.vn.inflight[cookie]
        st == [st0 EXCEPT !.replies = @ + 1,
                          !.succesfull = IF succesfull THEN @ + 1 ELSE @]
    IN IF ReqDone(st)
       THEN Respond([ctx EXCEPT !.vn.inflight = MapDel(@, cookie)],
                    [token |-> st.token, kind |-> "set", container |-> st.container])
       ELSE [ctx EXCEPT !.vn.inflight[cookie] = st]

\* do_get
do_get(ctx, self, token, key) ==
    LET nodes == nodes_for_vnode(FALSE)
        c0 == GenCookie(ctx)
        cookie == c0.ret
        expire == now + REQUEST_TIMEOUT_MS
        c1 == [c0 EXCEPT !.vn.inflight =
                 MapPut(@, cookie, ReqStateNew(token, Cardinality(nodes), expire))]
        c2 == IF self \in nodes
              THEN process_get(c1, cookie, Some(storage_get(c1.vn, key))) ELSE c1
    IN [c2 EXCEPT !.out = @ \cup {MsgRemoteGet(self, n, cookie, key) :
                                     n \in nodes \ {self}}]

\* do_set
do_set(ctx, self, token, key, value_opt, vv) ==
    LET nodes == nodes_for_vnode(TRUE)
        c0 == GenCookie(ctx)
        cookie == c0.ret
        expire == now + REQUEST_TIMEOUT_MS
        c1 == [c0 EXCEPT !.vn.inflight =
                 MapPut(@, cookie, ReqStateNew(token, Cardinality(nodes), expire))]
        c2 == storage_set_local(c1, self, key, value_opt, vv)
        dcc == c2.ret
        c3 == process_set(c2, cookie, TRUE)
    IN [c3 EXCEPT !.out = @ \cup {MsgRemoteSet(self, n, cookie, key, dcc) :
                                     n \in nodes \ {self}}]

\* handler_get_remote_ack
handler_get_remote_ack(ctx, self, msg) ==
    process_get(ctx, msg.cookie, IF msg.result.ok THEN Some(msg.result.dcc) ELSE None)

\* mutant: every message is accepted in every status but Absent
StatusAllowedLax(type) == {"Ready", "Recover", "Zombie", "Bootstrap"}

\* mutant: no status check at all
StatusAllowedAll(type) == Status

\* check_status!: the statuses a message is accepted in
StatusAllowed(type) ==
    CASE type = "RemoteGet" -> {"Ready", "Zombie"}
      [] type = "RemoteSet" -> {"Ready"}
      [] type = "SyncSend" -> {"Ready", "Recover", "Bootstrap"}
      [] type = "SyncAck" -> {"Ready", "Zombie"}
      [] type = "SyncFin" -> {"Ready", "Recover", "Zombie", "Bootstrap"}

\* handler_get_remote
handler_get_remote(ctx, self, msg) ==
    IF ctx.vn.status \notin StatusAllowed("RemoteGet")
    THEN Send(ctx, MsgRemoteGetAck(self, msg.from, msg.cookie, Err("BadVNodeStatus")))
    ELSE Send(ctx, MsgRemoteGetAck(self, msg.from, msg.cookie,
                                   OkDcc(storage_get(ctx.vn, msg.key))))

\* handler_set_remote
handler_set_remote(ctx, self, msg) ==
    IF ctx.vn.status \notin StatusAllowed("RemoteSet")
    THEN Send(ctx, MsgRemoteSetAck(self, msg.from, msg.cookie, Err("BadVNodeStatus")))
    ELSE Send(storage_set_remote(ctx, self, msg.key, msg.container),
              MsgRemoteSetAck(self, msg.from, msg.cookie, OkUnit))

\* handler_set_remote_ack
handler_set_remote_ack(ctx, self, msg) == process_set(ctx, msg.cookie, msg.result.ok)

\* mutant: a Zombie serves SyncStart at once
SyncStartAllowedEarly(vn) == vn.status \in {"Ready", "Zombie"}

\* the status test of handler_sync_start
SyncStartAllowed(vn) ==
    \/ vn.status = "Ready"
    \/ (vn.status = "Zombie" /\ Elapsed(vn.last_status_change) > ZOMBIE_TIMEOUT_MS)

\* handler_sync_start
handler_sync_start(ctx, self, msg) ==
    IF ~SyncStartAllowed(ctx.vn)
    THEN Send(ctx, MsgSyncFin(self, msg.from, msg.cookie, Err("BadVNodeStatus")))
    ELSE IF msg.cookie \in DOMAIN ctx.vn.syncs THEN ctx
    ELSE IF (msg.target = None) # (msg.clock_in_peer = None)
         THEN Panic(ctx, "handler_sync_start: unreachable")
    ELSE LET sync == IF msg.target = None
                     THEN new_bootstrap_sender(ctx.vn, msg.from, msg)
                     ELSE new_sync_sender(ctx.vn, self, msg.from, msg)
         IN on_start([ctx EXCEPT !.vn.syncs = MapPut(@, msg.cookie, sync)],
                     self, msg.cookie)

\* forward!: check_status!, then the session of the cookie or CookieNotFound
handler_sync_send(ctx, self, msg) ==
    IF ctx.vn.status \notin StatusAllowed("SyncSend")
    THEN Send(ctx, MsgSyncFin(self, msg.from, msg.cookie, Err("BadVNodeStatus")))
    ELSE IF msg.cookie \notin DOMAIN ctx.vn.syncs
    THEN Send(ctx, MsgSyncFin(self, msg.from, msg.cookie, Err("CookieNotFound")))
    ELSE on_send(ctx, self, msg.cookie, msg)

handler_sync_ack(ctx, self, msg) ==
    IF ctx.vn.status \notin StatusAllowed("SyncAck")
    THEN Send(ctx, MsgSyncFin(self, msg.from, msg.cookie, Err("BadVNodeStatus")))
    ELSE IF msg.cookie \notin DOMAIN ctx.vn.syncs
    THEN Send(ctx, MsgSyncFin(self, msg.from, msg.cookie, Err("CookieNotFound")))
    ELSE on_ack(ctx, self, msg.cookie, msg)

\* mutant: without another replica the vnode waits in Bootstrap
start_bootstrap_wait(ctx, self, pick) ==
    IF ~Alive(ctx) THEN ctx ELSE
    IF ctx.vn.status \notin {"Bootstrap", "Absent"}
    THEN Panic(ctx, "start_bootstrap: status")
    ELSE LET c0 == GenCookie(ctx)
             cookie == c0.ret
             c1 == set_status(c0, "Bootstrap")
             bootstrap == [kind |-> "BootstrapReceiver", cookie |-> cookie,
                           peer |-> pick, count |-> 0, last_receive |-> now,
                           starts_sent |-> 0]
         IN IF nodes_for_vnode(FALSE) \ {self} = {} THEN c1
            ELSE send_start([c1 EXCEPT !.vn.syncs = MapPut(@, cookie, bootstrap)],
                            self, cookie)

\* start_bootstrap; pick is the first non-self node of the shuffled replica list
start_bootstrap(ctx, self, pick) ==
    IF ~Alive(ctx) THEN ctx ELSE
    IF ctx.vn.status \notin {"Bootstrap", "Absent"}
    THEN Panic(ctx, "start_bootstrap: status")
    ELSE LET c0 == GenCookie(ctx)
             cookie == c0.ret
         IN IF nodes_for_vnode(FALSE) \ {self} = {} THEN set_status(c0, "Ready")
            ELSE LET c1 == set_status(c0, "Bootstrap")
                     bootstrap == [kind |-> "BootstrapReceiver", cookie |-> cookie,
                                   peer |-> pick, count |-> 0, last_receive |-> now,
                                   starts_sent |-> 0]
                 IN send_start([c1 EXCEPT !.vn.syncs = MapPut(@, cookie, bootstrap)],
                               self, cookie)

\* the choices of pick that start_bootstrap can make
Picks(self) == IF nodes_for_vnode(FALSE) \ {self} = {} THEN {self}
               ELSE nodes_for_vnode(FALSE) \ {self}

\* start_sync, the loop over the replicas still to visit; ret counts the started
RECURSIVE StartSyncLoop(_, _, _, _)
StartSyncLoop(ctx, self, reverse, nodes) ==
    IF nodes = {} \/ ~Alive(ctx) THEN ctx
    ELSE LET node == CHOOSE n \in nodes : \A m \in nodes : n <= m
             rest == nodes \ {node}
         IN IF node = self \/ node \in ctx.vn.sync_nodes
            THEN StartSyncLoop(ctx, self, reverse, rest)
            ELSE LET started == ctx.ret
                     c0 == GenCookie(ctx)
                     cookie == c0.ret
                     target == IF reverse THEN self ELSE node
                     c1 == IF reverse
                           THEN [c0 EXCEPT !.vn.pending_recoveries = @ + 1]
                           ELSE [c0 EXCEPT !.vn.sync_nodes = @ \cup {node}]
                     sync == [kind |-> "SyncReceiver",
                              clock_in_peer |-> c1.vn.clocks[node], peer |-> node,
                              cookie |-> cookie, count |-> 0, target |-> target,
                              last_receive |-> now, starts_sent |-> 0]
                     c2 == send_start([c1 EXCEPT !.vn.syncs = MapPut(@, cookie, sync)],
                                      self, cookie)
                 IN StartSyncLoop([c2 EXCEPT !.ret = started + 1], self, reverse, rest)

\* start_sync
start_sync(ctx, self, reverse) ==
    IF ~Alive(ctx) THEN ctx ELSE
    IF reverse /\ ~(ctx.vn.status = "Recover" /\ ctx.vn.pending_recoveries = 0)
    THEN Panic(ctx, "start_sync: reverse status")
    ELSE IF ~reverse /\ ctx.vn.status \notin {"Ready", "Zombie"}
    THEN Panic(ctx, "start_sync: status")
    ELSE LET c == StartSyncLoop([ctx EXCEPT !.ret = 0], self, reverse,
                                  nodes_for_vnode(FALSE))
         IN IF Alive(c) /\ reverse /\ c.ret = 0
            THEN [set_status(c, "Ready") EXCEPT !.ret = 0]
            ELSE c

\* handler_sync_fin
handler_sync_fin(ctx, self, msg, pick) ==
    IF ctx.vn.status \notin StatusAllowed("SyncFin")
    THEN Send(ctx, MsgSyncFin(self, msg.from, msg.cookie, Err("BadVNodeStatus")))
    ELSE IF msg.cookie \notin DOMAIN ctx.vn.syncs
    THEN IF msg.result.ok
         THEN Send(ctx, MsgSyncFin(self, msg.from, msg.cookie, Err("CookieNotFound")))
         ELSE ctx
    ELSE LET c1 == on_fin(ctx, self, msg.cookie, msg)
             result == c1.ret
             s == c1.vn.syncs[msg.cookie]
             c2 == IF result \in {"Done", "RetryBoostrap"}
                   THEN on_remove([c1 EXCEPT !.vn.syncs = MapDel(@, msg.cookie)], self, s)
                   ELSE c1
         IN IF result = "RetryBoostrap" THEN start_bootstrap(c2, self, pick) ELSE c2

\* cancel incoming syncs: on_cancel on every receiver, then remove each
RECURSIVE CancelAll(_, _, _)
CancelAll(ctx, self, cookies) ==
    IF cookies = {} THEN ctx
    ELSE LET c == CHOOSE x \in cookies : \A y \in cookies : x <= y
         IN CancelAll(on_cancel(ctx, self, ctx.vn.syncs[c]), self, cookies \ {c})

RECURSIVE RemoveAll(_, _, _)
RemoveAll(ctx, self, cookies) ==
    IF cookies = {} \/ ~Alive(ctx) THEN ctx
    ELSE LET c == CHOOSE x \in cookies : \A y \in cookies : x <= y
             s == ctx.vn.syncs[c]
         IN RemoveAll(on_remove([ctx EXCEPT !.vn.syncs = MapDel(@, c)], self, s),
                      self, cookies \ {c})

Receivers(vn) == {c \in DOMAIN vn.syncs : IsReceiver(vn.syncs[c])}
Senders(vn) == {c \in DOMAIN vn.syncs : IsSender(vn.syncs[c])}

\* mutant: a revoked vnode is dropped at once, its receivers still in place
handler_dht_change_drop(ctx, self, x_status, pick) ==
    LET st == ctx.vn.status IN
    IF st \in {"Ready", "Bootstrap", "Recover"} /\ x_status = "Absent"
    THEN set_status(ctx, "Absent")
    ELSE IF st = "Zombie" /\ x_status = "Absent" THEN ctx
    ELSE IF st = "Zombie" /\ x_status = "Ready" THEN set_status(ctx, "Ready")
    ELSE IF st = "Absent" /\ x_status = "Ready" THEN start_bootstrap(ctx, self, pick)
    ELSE IF st \in {"Bootstrap", "Recover"} /\ x_status = "Ready" THEN ctx
    ELSE IF st = x_status THEN ctx
    ELSE Panic(ctx, "handler_dht_change: invalid change")

\* handler_dht_change
handler_dht_change(ctx, self, x_status, pick) ==
    LET st == ctx.vn.status IN
    IF st \in {"Ready", "Bootstrap", "Recover"} /\ x_status = "Absent"
    THEN LET canceled == Receivers(ctx.vn)
             c1 == RemoveAll(CancelAll(ctx, self, canceled), self, canceled)
         IN IF c1.vn.status = "Recover" THEN set_status(c1, "Absent")
            ELSE set_status(c1, "Zombie")
    ELSE IF st = "Zombie" /\ x_status = "Absent" THEN ctx
    ELSE IF st = "Zombie" /\ x_status = "Ready" THEN set_status(ctx, "Ready")
    ELSE IF st = "Absent" /\ x_status = "Ready" THEN start_bootstrap(ctx, self, pick)
    ELSE IF st \in {"Bootstrap", "Recover"} /\ x_status = "Ready" THEN ctx
    ELSE IF st = x_status THEN ctx
    ELSE Panic(ctx, "handler_dht_change: invalid change")

\* handler_tick, first loop: on_tick on every session; ret collects the terminated
RECURSIVE TickAll(_, _, _, _)
TickAll(ctx, self, cookies, terminated) ==
    IF cookies = {} \/ ~Alive(ctx) THEN [ctx EXCEPT !.ret = terminated]
    ELSE LET c == CHOOSE x \in cookies : \A y \in cookies : x <= y
             c1 == on_tick(ctx, self, c)
         IN TickAll(c1, self, cookies \ {c},
                    IF c1.ret = "Continue" THEN terminated
                    ELSE terminated \cup {<<c, c1.ret>>})

\* mutant: a bootstrap that timed out is removed and not started again
RECURSIVE TickRemoveOnly(_, _, _, _)
TickRemoveOnly(ctx, self, terminated, pick) ==
    IF terminated = {} \/ ~Alive(ctx) THEN ctx
    ELSE LET t == CHOOSE x \in terminated : \A y \in terminated : x[1] <= y[1]
         IN TickRemoveOnly(on_remove([ctx EXCEPT !.vn.syncs = MapDel(@, t[1])],
                                     self, ctx.vn.syncs[t[1]]),
                           self, terminated \ {t}, pick)

\* handler_tick, second loop: retry the bootstrap and remove each terminated session
RECURSIVE TickRemove(_, _, _, _)
TickRemove(ctx, self, terminated, pick) ==
    IF terminated = {} \/ ~Alive(ctx) THEN ctx
    ELSE LET t == CHOOSE x \in terminated : \A y \in terminated : x[1] <= y[1]
             c1 == IF t[2] = "RetryBoostrap" THEN start_bootstrap(ctx, self, pick)
                   ELSE ctx
         IN IF ~Alive(c1) THEN c1
            ELSE TickRemove(on_remove([c1 EXCEPT !.vn.syncs = MapDel(@, t[1])],
                                      self, c1.vn.syncs[t[1]]),
                            self, terminated \ {t}, pick)

\* handler_tick, the expired requests answered with Timeout
RECURSIVE PopExpired(_, _)
PopExpired(ctx, cookies) ==
    IF cookies = {} \/ ~Alive(ctx) THEN ctx
    ELSE LET c == CHOOSE x \in cookies : \A y \in cookies : x <= y
         IN PopExpired(
              Respond([ctx EXCEPT !.vn.inflight = MapDel(@, c)],
                      [token |-> ctx.vn.inflight[c].token, kind |-> "error",
                       error |-> "Timeout"]),
              cookies \ {c})

\* mutant: the tick does not drain the expired requests
handler_tick_no_expiry(ctx, self, pick) ==
    LET c1 == TickAll(ctx, self, DOMAIN ctx.vn.syncs, {})
        c3 == TickRemove(c1, self, c1.ret, pick)
    IN IF Alive(c3) /\ c3.vn.status = "Zombie" /\ c3.vn.syncs = EmptyMap
          /\ c3.vn.inflight = EmptyMap
          /\ Elapsed(c3.vn.last_status_change) > ZOMBIE_TIMEOUT_MS
       THEN set_status(c3, "Absent")
       ELSE c3

\* mutant: the tick never retires a Zombie
handler_tick_keep_zombie(ctx, self, pick) ==
    LET c1 == TickAll(ctx, self, DOMAIN ctx.vn.syncs, {})
        c2 == TickRemove(c1, self, c1.ret, pick)
    IN PopExpired(c2, IF Alive(c2) THEN Expired(c2.vn.inflight, now) ELSE {})

\* mutant: the tick retires a Zombie past its timeout whatever it still holds
handler_tick_eager(ctx, self, pick) ==
    LET c1 == TickAll(ctx, self, DOMAIN ctx.vn.syncs, {})
        c2 == TickRemove(c1, self, c1.ret, pick)
        c3 == PopExpired(c2, IF Alive(c2) THEN Expired(c2.vn.inflight, now) ELSE {})
    IN IF Alive(c3) /\ c3.vn.status = "Zombie"
          /\ Elapsed(c3.vn.last_status_change) > ZOMBIE_TIMEOUT_MS
       THEN set_status(c3, "Absent")
       ELSE c3

\* handler_tick
handler_tick(ctx, self, pick) ==
    LET c1 == TickAll(ctx, self, DOMAIN ctx.vn.syncs, {})
        c2 == TickRemove(c1, self, c1.ret, pick)
        c3 == PopExpired(c2, IF Alive(c2) THEN Expired(c2.vn.inflight, now) ELSE {})
    IN IF Alive(c3) /\ c3.vn.status = "Zombie" /\ c3.vn.syncs = EmptyMap
          /\ c3.vn.inflight = EmptyMap
          /\ Elapsed(c3.vn.last_status_change) > ZOMBIE_TIMEOUT_MS
       THEN set_status(c3, "Absent")
       ELSE c3

----------------------------------------------------------------------------
(* Loading and construction *)

\* VNodeState::load, the recovery scan: clocks, log and peers rebuilt from storage
RECURSIVE RecoverScan(_, _, _)
RecoverScan(vn, self, items) ==
    IF items = <<>> THEN vn
    ELSE LET k == Head(items)[1]
             dcc == Head(items)[2]
             mine == {x \in DccVersions(dcc) : x[1] = self \/ x[1] \in nodes_for_vnode(TRUE)}
             vn1 == [vn EXCEPT !.clocks = DccAddToBvv(dcc, @)]
         IN RecoverScan(LogVersions(vn1, self, k, mine), self, Tail(items))

\* VNodeState::load; storage is what the node's disk holds
load(ctx, self, status, is_create) ==
    LET saved == ctx.meta
        disk == ctx.vn.storage
    IN IF saved = NoMeta
       THEN [ctx EXCEPT !.vn = new_empty(IF status = "Ready" /\ ~is_create
                                         THEN "Recover" ELSE status)]
       ELSE IF status \notin {"Ready", "Absent", "Bootstrap"}
       THEN Panic(ctx, "load: invalid status")
       ELSE LET storage == IF status = "Ready" THEN disk ELSE EmptyMap
                recover == status = "Ready" /\ ~is_create /\ ~saved.clean_shutdown
                vn0 == [new_empty(IF recover THEN "Recover" ELSE status) EXCEPT
                          !.clocks = saved.clocks, !.log = saved.log,
                          !.peers = saved.peers, !.storage = storage]
            IN [ctx EXCEPT !.vn = IF recover
                                  THEN RecoverScan(vn0, self, StorageScan(storage))
                                  ELSE vn0]

\* VNode::new
vnode_new(ctx, self, status, is_create, pick) ==
    LET c1 == save(load(ctx, self, status, is_create), FALSE)
    IN IF ~Alive(c1) THEN c1
       ELSE IF is_create /\ status # "Ready" THEN Panic(c1, "new: status must be ready")
       ELSE IF c1.vn.status = "Bootstrap" THEN start_bootstrap(c1, self, pick)
       ELSE IF c1.vn.status = "Recover" THEN start_sync(c1, self, TRUE)
       ELSE IF c1.vn.status \in {"Ready", "Absent"} THEN c1
       ELSE Panic(c1, "new: invalid state after load")

----------------------------------------------------------------------------
(* Actions.  Commit installs the outcome of a handler run on node n.       *)

Token == 1..MaxToken

RECURSIVE AddResponses(_, _)
AddResponses(rs, seq) ==
    IF seq = <<>> THEN rs
    ELSE AddResponses([rs EXCEPT ![Head(seq).token] = Append(@, Head(seq))], Tail(seq))

RECURSIVE SeqToSet(_)
SeqToSet(seq) == IF seq = <<>> THEN {} ELSE {Head(seq)} \cup SeqToSet(Tail(seq))

Running(n) == up[n] /\ panicked[n] = NoPanic

\* db.dht.promote_pending_node(num, node)
Promote(d, nodes) == [owners |-> d.owners \cup (d.pending \cap nodes),
                      pending |-> d.pending \ nodes]

\* the history of the receiver sessions of node n once its vnode has become vn
QuietAfter(n, vn) ==
    [c \in Receivers(vn) |->
        IF c \in DOMAIN vnode[n].syncs /\ c \in DOMAIN quiet_since[n]
           /\ vn.syncs[c].count = vnode[n].syncs[c].count
        THEN quiet_since[n][c] ELSE now]

Commit(n, ctx, consumed) ==
    /\ vnode' = [vnode EXCEPT ![n] = ctx.vn]
    /\ quiet_since' = [quiet_since EXCEPT ![n] = QuietAfter(n, ctx.vn)]
    /\ meta' = [meta EXCEPT ![n] = ctx.meta]
    /\ net' = (net \ consumed) \cup ctx.out
    /\ responses' = AddResponses(responses, ctx.resp)
    /\ nextCookie' = ctx.cookie
    /\ issued' = [issued EXCEPT ![n] = @ \cup SeqToSet(ctx.events)]
    /\ panicked' = [panicked EXCEPT ![n] = ctx.panic]
    /\ UNCHANGED <<now, up, fabric>>

\* a handler run that leaves the membership to the sessions (promote_pending_node)
Handle(n, ctx, consumed) ==
    /\ Commit(n, ctx, consumed)
    /\ dht' = Promote(dht, ctx.promoted)
    /\ UNCHANGED nextToken

\* the version vectors a client can hand to do_set: none, or the one it just read
ClientVV(n, key) == {VVNew, storage_get(vnode[n], key).vv}

DoGet(n, key) ==
    /\ Running(n)
    /\ nextToken <= MaxToken
    /\ nextToken' = nextToken + 1
    /\ Commit(n, do_get(Ctx(n), n, nextToken, key), {})
    /\ UNCHANGED dht

DoSet(n, key, value_opt, vv) ==
    /\ Running(n)
    /\ nextToken <= MaxToken
    /\ nextToken' = nextToken + 1
    /\ Commit(n, do_set(Ctx(n), n, nextToken, key, value_opt, vv), {})
    /\ UNCHANGED dht

Deliverable(m, type) == m.type = type /\ Running(m.to)

HandlerGetRemote(m) ==
    /\ Deliverable(m, "RemoteGet")
    /\ Handle(m.to, handler_get_remote(Ctx(m.to), m.to, m), {m})

HandlerGetRemoteAck(m) ==
    /\ Deliverable(m, "RemoteGetAck")
    /\ Handle(m.to, handler_get_remote_ack(Ctx(m.to), m.to, m), {m})

HandlerSetRemote(m) ==
    /\ Deliverable(m, "RemoteSet")
    /\ Handle(m.to, handler_set_remote(Ctx(m.to), m.to, m), {m})

HandlerSetRemoteAck(m) ==
    /\ Deliverable(m, "RemoteSetAck")
    /\ Handle(m.to, handler_set_remote_ack(Ctx(m.to), m.to, m), {m})

HandlerSyncStart(m) ==
    /\ Deliverable(m, "SyncStart")
    /\ Handle(m.to, handler_sync_start(Ctx(m.to), m.to, m), {m})

HandlerSyncSend(m) ==
    /\ Deliverable(m, "SyncSend")
    /\ Handle(m.to, handler_sync_send(Ctx(m.to), m.to, m), {m})

HandlerSyncAck(m) ==
    /\ Deliverable(m, "SyncAck")
    /\ Handle(m.to, handler_sync_ack(Ctx(m.to), m.to, m), {m})

HandlerSyncFin(m) ==
    /\ Deliverable(m, "SyncFin")
    /\ \E pick \in Picks(m.to) :
         Handle(m.to, handler_sync_fin(Ctx(m.to), m.to, m, pick), {m})

HandlerTick(n) ==
    /\ Running(n)
    /\ \E pick \in Picks(n) :
         Handle(n, handler_tick(Ctx(n), n, pick), {})

\* the membership after handler_dht_change(x_status) ran on node n
DhtAfter(n, x_status, status) ==
    IF x_status = "Absent"
    THEN [owners |-> dht.owners \ {n}, pending |-> dht.pending \ {n}]
    ELSE IF n \in dht.owners \cup dht.pending THEN dht
    ELSE IF status = "Ready" THEN [dht EXCEPT !.owners = @ \cup {n}]
    ELSE [dht EXCEPT !.pending = @ \cup {n}]

\* the DHT hands the vnode to node n (Ready) or takes it away (Absent)
HandlerDhtChange(n, x_status) ==
    /\ Running(n)
    /\ \E pick \in Picks(n) :
         LET ctx == handler_dht_change(Ctx(n), n, x_status, pick)
         IN /\ Commit(n, ctx, {})
            /\ dht' = DhtAfter(n, x_status, ctx.vn.status)
    /\ UNCHANGED nextToken

\* start_sync(reverse = false), asked for by the database while Ready or Zombie
StartSync(n) ==
    /\ Running(n)
    /\ vnode[n].status \in {"Ready", "Zombie"}
    /\ Handle(n, start_sync(Ctx(n), n, FALSE), {})

\* the fabric drops a message
Lose(m) ==
    /\ net' = net \ {m}
    /\ UNCHANGED <<vnode, meta, now, dht, responses, nextCookie, nextToken, issued,
                   panicked, up, quiet_since, fabric>>

AdvanceTime(d) ==
    /\ now' = now + d
    /\ UNCHANGED <<vnode, meta, net, dht, responses, nextCookie, nextToken, issued,
                   panicked, up, quiet_since, fabric>>

\* what the disk holds of a vnode whose process is gone
Down(vn) == [new_empty("Absent") EXCEPT !.storage = vn.storage,
                                        !.last_status_change = 0]

\* the process dies without save(shutdown = true); only the disk survives
Crash(n) ==
    /\ up[n]
    /\ up' = [up EXCEPT ![n] = FALSE]
    /\ vnode' = [vnode EXCEPT ![n] = Down(vnode[n])]
    /\ panicked' = [panicked EXCEPT ![n] = NoPanic]
    /\ quiet_since' = [quiet_since EXCEPT ![n] = EmptyMap]
    /\ UNCHANGED <<meta, net, now, dht, responses, nextCookie, nextToken, issued,
                   fabric>>

\* the status the database asks VNode::new for when the node restarts
RestartStatus(n) == IF n \in dht.owners THEN "Ready"
                    ELSE IF n \in dht.pending THEN "Bootstrap" ELSE "Absent"

\* the process starts again: VNode::new(db, num, status, is_create = false)
Restart(n) ==
    /\ ~up[n]
    /\ up' = [up EXCEPT ![n] = TRUE]
    /\ \E pick \in Picks(n) :
         LET ctx == vnode_new(Ctx(n), n, RestartStatus(n), FALSE, pick)
         IN /\ vnode' = [vnode EXCEPT ![n] = ctx.vn]
            /\ meta' = [meta EXCEPT ![n] = ctx.meta]
            /\ net' = net \cup ctx.out
            /\ nextCookie' = ctx.cookie
            /\ panicked' = [panicked EXCEPT ![n] = ctx.panic]
            /\ quiet_since' = [quiet_since EXCEPT ![n] = QuietAfter(n, ctx.vn)]
    /\ UNCHANGED <<now, dht, responses, nextToken, issued, fabric>>

----------------------------------------------------------------------------
(* Fabric: the SharedContext of one node toward one peer and the pipes of  *)
(* its connections.  connections holds the ids registered for the peer,    *)
(* chan[c] the unbounded channel of connection c, wire[c] what send_all    *)
(* wrote to the socket and the peer has not read yet.  sent are the        *)
(* messages send_msg returned Ok for, noroute the ones it returned NoRoute *)
(* for, dispatched the handler invocations at the peer in order, lost the  *)
(* messages a closing connection held.  The vnode specifications abstract  *)
(* all of this into net.                                                   *)

FabMaxConns == 3       \* connections opened in one behaviour (connection_gen)
FabMaxMsgs == 3        \* messages handed to send_msg in one behaviour
FabPipes == 2          \* connections kept to one peer: one dialled, one accepted

ConnId == 0 .. FabMaxConns - 1
FabMsg == 1 .. FabMaxMsgs

FabricNew == [connections |-> {}, connection_gen |-> 0,
              chan |-> [c \in ConnId |-> <<>>], wire |-> [c \in ConnId |-> <<>>],
              sent |-> {}, noroute |-> {}, dispatched |-> <<>>, lost |-> {}]

\* SharedContext::register_connection, from WriterContext::new
register_connection(f) ==
    [f EXCEPT !.connections = @ \cup {f.connection_gen},
              !.connection_gen = @ + 1]

\* Fabric::send_msg: pick is the connection thread_rng chooses
send_msg(f, pick, msg) ==
    IF f.connections = {} THEN [f EXCEPT !.noroute = @ \cup {msg}]
    ELSE [f EXCEPT !.chan[pick] = Append(@, msg), !.sent = @ \cup {msg}]

\* mutant: the handler is invoked twice for a message
dispatch_twice(f, msg) == [f EXCEPT !.dispatched = Append(Append(@, msg), msg)]

\* ReaderContext::dispatch, with a handler registered for the message type
dispatch(f, msg) == [f EXCEPT !.dispatched = Append(@, msg)]

\* steady_connection ends: the WriterContext is dropped (remove_connection) and
\* the channel with what it queues; what is on the wire is still read by the
\* peer unless the socket was reset
steady_connection_end(f, c, reset) ==
    [f EXCEPT !.connections = @ \ {c},
              !.chan[c] = <<>>,
              !.wire[c] = IF reset THEN <<>> ELSE @,
              !.lost = @ \cup SeqToSet(f.chan[c])
                         \cup (IF reset THEN SeqToSet(f.wire[c]) ELSE {})]

----------------------------------------------------------------------------
(* Initial states: the cluster is created with the owners Ready            *)
(* (is_create = true) and every other node Absent.                         *)

InitCtx == [vn |-> new_empty("Absent"), meta |-> NoMeta, out |-> {}, resp |-> <<>>,
            cookie |-> 1, events |-> <<>>, ret |-> None, panic |-> NoPanic,
            promoted |-> {}, routes |-> Node]

InitWith(owners) ==
    /\ now = 0
    /\ dht = [owners |-> owners, pending |-> {}]
    /\ vnode = [n \in Node |->
                  IF n \in owners THEN vnode_new(InitCtx, n, "Ready", TRUE, n).vn
                  ELSE vnode_new(InitCtx, n, "Absent", FALSE, n).vn]
    /\ meta = [n \in Node |->
                  IF n \in owners THEN vnode_new(InitCtx, n, "Ready", TRUE, n).meta
                  ELSE vnode_new(InitCtx, n, "Absent", FALSE, n).meta]
    /\ net = {}
    /\ responses = [t \in Token |-> <<>>]
    /\ nextCookie = 1
    /\ nextToken = 1
    /\ issued = [n \in Node |-> {}]
    /\ panicked = [n \in Node |-> NoPanic]
    /\ up = [n \in Node |-> TRUE]
    /\ quiet_since = [n \in Node |-> EmptyMap]
    /\ fabric = FabricNew

----------------------------------------------------------------------------
(* SpecReq: the request path.  Node 1 coordinates client requests on one   *)
(* key, also after the DHT has taken the vnode away from it; nodes 2 and 3 *)
(* answer, and node 2 may crash and restart (into Recover).  A message     *)
(* that is never delivered is a message the fabric lost.                   *)

ReqStep == 2100        \* the time between two observations of the clock
ReqMaxTime == 2100     \* the clock stops advancing here
ReqMaxCookie == 4      \* cookies handed out by gen_cookie in one behaviour
ReqKey == "k1"
ReqValues == {Some("a")}

InitReq == InitWith({1, 2, 3})

ReqBounds == now' <= ReqMaxTime /\ nextCookie' <= ReqMaxCookie + 1

\* a request is taken only while the clock can still reach its deadline
ReqOpen == now + REQUEST_TIMEOUT_MS <= ReqMaxTime

NextReq ==
    /\ \/ ReqOpen /\ DoGet(1, ReqKey)
       \/ ReqOpen /\ \E v \in ReqValues : \E vv \in ClientVV(1, ReqKey) :
                        DoSet(1, ReqKey, v, vv)
       \/ \E m \in net : HandlerGetRemote(m)
       \/ \E m \in net : HandlerGetRemoteAck(m)
       \/ \E m \in net : HandlerSetRemote(m)
       \/ \E m \in net : HandlerSetRemoteAck(m)
       \/ HandlerTick(1)
       \/ HandlerDhtChange(1, "Absent")
       \/ Crash(2)
       \/ Restart(2)
       \/ AdvanceTime(ReqStep)
    /\ ReqBounds

SpecReq == InitReq /\ [][NextReq]_vars

\* The reads of the same request path (a write is answered inside do_set), with a
\* replica that may go down for good, for a request that nobody may ever reply to.  The tick is periodic and the clock
\* advances (spec 4.F, vnode.rs:358): both are weakly fair.
NextTimeout ==
    /\ \/ ReqOpen /\ DoGet(1, ReqKey)
       \/ \E m \in net : HandlerGetRemote(m)
       \/ \E m \in net : HandlerGetRemoteAck(m)
       \/ HandlerTick(1)
       \/ HandlerDhtChange(1, "Absent")
       \/ Crash(2)
       \/ AdvanceTime(ReqStep)
    /\ ReqBounds

\* a tick that has a request to expire; node 1 runs no session here, so that the
\* tick sends nothing
TickDue == Running(1) /\ Expired(vnode[1].inflight, now) # {}
TickExpire == TickDue /\ UNCHANGED <<net, now, dht, up>> /\ HandlerTick(1) /\ ReqBounds

SpecTimeout ==
    /\ InitReq
    /\ [][NextTimeout]_vars
    /\ WF_vars(TickExpire)
    /\ WF_vars(AdvanceTime(ReqStep) /\ ReqBounds)

----------------------------------------------------------------------------
(* The request path: claims *)

Started(t) == t < nextToken
Answered(t) == Len(responses[t]) >= 1
RequestMsgs == {m \in net : m.type \in {"RemoteGet", "RemoteGetAck", "RemoteSet",
                                        "RemoteSetAck"}}
InFlightOf(t) == {<<n, c>> \in Node \X (1..(nextCookie - 1)) :
                    c \in DOMAIN vnode[n].inflight /\ vnode[n].inflight[c].token = t}

\* C1: every client request gets at most one response; once it is answered its
\* ReqState is gone from the in-flight map, so that the acks and ticks that follow
\* for its cookie answer nothing more.
C1_AtMostOneResponse ==
    \A t \in Token :
        /\ Len(responses[t]) <= 1
        /\ Cardinality(InFlightOf(t)) <= 1
        /\ Answered(t) => InFlightOf(t) = {}
        /\ ~Started(t) => ~Answered(t) /\ InFlightOf(t) = {}

\* a request was answered by quorum and every message of the request path has since
\* been handled: the replies of the other replicas came after the response
C1_Witness ==
    /\ \E t \in Token : Answered(t) /\ responses[t][1].kind # "error"
    /\ Started(MaxToken)
    /\ RequestMsgs = {}
    /\ up[2]

\* the reply that a step hands to process_get / process_set for cookie c, if any
ReplyFor(c) == {m \in net \ net' : m.type \in {"RemoteGetAck", "RemoteSetAck"}
                                     /\ m.to = 1 /\ m.cookie = c}

\* C2: a ReqState stays in flight exactly while succesfull < required and
\* replies < total, and a reply answers the client only if it makes
\* succesfull == required or replies == total.
C2_Step ==
    /\ \A c \in DOMAIN vnode'[1].inflight :
          LET st == vnode'[1].inflight[c]
          IN st.succesfull < st.required /\ st.replies < st.total
    /\ \A c \in DOMAIN vnode[1].inflight :
          LET st == vnode[1].inflight[c] IN
          \A m \in ReplyFor(c) :
             LET succ == IF m.result.ok THEN st.succesfull + 1 ELSE st.succesfull
                 done == succ = st.required \/ st.replies + 1 = st.total
             IN /\ done => /\ c \notin DOMAIN vnode'[1].inflight
                           /\ Len(responses'[st.token]) = Len(responses[st.token]) + 1
                           /\ responses'[st.token][Len(responses'[st.token])].kind
                                 \in {"get", "set"}
                /\ ~done => /\ c \in DOMAIN vnode'[1].inflight
                            /\ vnode'[1].inflight[c].replies = st.replies + 1
                            /\ vnode'[1].inflight[c].succesfull = succ
                            /\ responses' = responses

C2_QuorumAnswers == [][C2_Step]_vars

\* a request is still in flight after a failed reply: one reply of two, no success
C2_Witness ==
    \E c \in DOMAIN vnode[1].inflight :
        LET st == vnode[1].inflight[c]
        IN st.replies = 1 /\ st.succesfull = 0 /\ st.total = 2

\* C3 (safety): a handler_tick run at or after the deadline of a ReqState answers it
\* with Timeout and removes it.
C3_TickExpires ==
    \A c \in DOMAIN vnode[1].inflight :
        (Running(1) /\ vnode[1].inflight[c].expire <= now) =>
            \A pick \in Picks(1) :
                LET x == handler_tick(Ctx(1), 1, pick)
                IN /\ c \notin DOMAIN x.vn.inflight
                   /\ \E i \in 1..Len(x.resp) :
                         x.resp[i] = [token |-> vnode[1].inflight[c].token,
                                      kind |-> "error", error |-> "Timeout"]

\* C3: a request in flight past its deadline is answered with Timeout by the next
\* tick, and with periodic ticks every request is eventually answered, whether or
\* not a replica replies.
C3_Timeout ==
    /\ []C3_TickExpires
    /\ \A t \in Token : Started(t) ~> Answered(t)

\* a request has been answered with Timeout
C3_Witness ==
    \E t \in Token : Answered(t) /\ responses[t][1].kind = "error"

----------------------------------------------------------------------------
(* SpecGate: nodes 1 and 2 own the vnode.  Node 1 coordinates a read and a *)
(* write at the start; their RemoteGet and RemoteSet reach node 2 at any   *)
(* later moment, while the DHT takes the vnode away from node 2 and hands  *)
(* it back, the Zombie times out, and node 2 crashes and restarts.         *)

GateStep == 3150       \* the time between two observations of the clock
GateMaxTime == 6300    \* the clock stops advancing here
GateMaxCookie == 4     \* cookies handed out by gen_cookie in one behaviour

InitGate == InitWith({1, 2})

GateBounds == now' <= GateMaxTime /\ nextCookie' <= GateMaxCookie + 1

NextGate ==
    /\ \/ now = 0 /\ DoGet(1, ReqKey)
       \/ now = 0 /\ \E vv \in ClientVV(1, ReqKey) : DoSet(1, ReqKey, Some("a"), vv)
       \/ \E m \in net : HandlerGetRemote(m)
       \/ \E m \in net : HandlerSetRemote(m)
       \/ \E x_status \in {"Ready", "Absent"} : HandlerDhtChange(2, x_status)
       \/ HandlerTick(2)
       \/ Crash(2)
       \/ Restart(2)
       \/ AdvanceTime(GateStep)
    /\ GateBounds

SpecGate == InitGate /\ [][NextGate]_vars

\* the state of the vnode that a rejected message must leave alone
SameState(a, b) ==
    /\ a.storage = b.storage /\ a.clocks = b.clocks /\ a.peers = b.peers
    /\ a.log = b.log /\ a.status = b.status /\ a.syncs = b.syncs

\* C4: handler_set_remote in a status other than Ready replies RemoteSetAck
\* Err(BadVNodeStatus) and changes no storage, clocks or peer logs; handler_get_remote
\* replies Ok with the stored container in Ready and Zombie, and
\* Err(BadVNodeStatus) in every other status.
C4_RemoteStatusGate ==
    \A m \in net :
        /\ (Deliverable(m, "RemoteSet") /\ vnode[m.to].status # "Ready") =>
              LET x == handler_set_remote(Ctx(m.to), m.to, m)
              IN /\ x.out = {MsgRemoteSetAck(m.to, m.from, m.cookie,
                                             Err("BadVNodeStatus"))}
                 /\ SameState(x.vn, vnode[m.to])
                 /\ Alive(x)
        /\ Deliverable(m, "RemoteGet") =>
              LET x == handler_get_remote(Ctx(m.to), m.to, m)
              IN /\ x.out = {MsgRemoteGetAck(m.to, m.from, m.cookie,
                               IF vnode[m.to].status \in {"Ready", "Zombie"}
                               THEN OkDcc(storage_get(vnode[m.to], m.key))
                               ELSE Err("BadVNodeStatus"))}
                 /\ SameState(x.vn, vnode[m.to])
                 /\ Alive(x)

\* node 2 has rejected a RemoteSet and a RemoteGet
C4_Witness ==
    /\ \E m \in net : m.type = "RemoteSetAck" /\ m.from = 2 /\ ~m.result.ok
    /\ \E m \in net : m.type = "RemoteGetAck" /\ m.from = 2 /\ ~m.result.ok

----------------------------------------------------------------------------
(* SpecSess: nodes 1 and 2 own the vnode and node 2 coordinates one write. *)
(* Node 1 syncs from node 2 (start_sync), node 2 bootstraps from node 1    *)
(* after the DHT took the vnode away and handed it back, and node 2 may    *)
(* crash and restart; the messages of the sessions reach node 2 in any of  *)
(* its statuses.  The clock stands still.                                  *)

SessMaxCookie == 3     \* cookies handed out by gen_cookie in one behaviour

NextSess ==
    /\ \/ nextToken = 1 /\ DoSet(2, ReqKey, Some("a"), VVNew)
       \/ \E m \in net : HandlerSetRemote(m)
       \/ \E m \in net : HandlerSyncStart(m)
       \/ \E m \in net : HandlerSyncSend(m)
       \/ \E m \in net : HandlerSyncAck(m)
       \/ \E m \in net : HandlerSyncFin(m)
       \/ \E x_status \in {"Ready", "Absent"} : HandlerDhtChange(2, x_status)
       \/ StartSync(1)
       \/ Crash(2)
       \/ Restart(2)
    /\ nextCookie' <= SessMaxCookie + 1

SpecSess == InitGate /\ [][NextSess]_vars

BadStatusFin(m) == {MsgSyncFin(m.to, m.from, m.cookie, Err("BadVNodeStatus"))}

\* C5: SyncSend goes to the session of its cookie only in Ready, Recover and
\* Bootstrap, SyncAck only in Ready and Zombie, SyncFin in every status but Absent;
\* in any other status the reply is SyncFin Err(BadVNodeStatus) and the sessions and
\* the vnode state stay as they are.
C5_SyncStatusGate ==
    \A m \in net :
        /\ Deliverable(m, "SyncSend") =>
              LET x == handler_sync_send(Ctx(m.to), m.to, m)
              IN IF vnode[m.to].status \in {"Ready", "Recover", "Bootstrap"}
                 THEN m.cookie \in DOMAIN vnode[m.to].syncs =>
                         x = on_send(Ctx(m.to), m.to, m.cookie, m)
                 ELSE x.out = BadStatusFin(m) /\ x.vn = vnode[m.to] /\ Alive(x)
        /\ Deliverable(m, "SyncAck") =>
              LET x == handler_sync_ack(Ctx(m.to), m.to, m)
              IN IF vnode[m.to].status \in {"Ready", "Zombie"}
                 THEN m.cookie \in DOMAIN vnode[m.to].syncs =>
                         x = on_ack(Ctx(m.to), m.to, m.cookie, m)
                 ELSE x.out = BadStatusFin(m) /\ x.vn = vnode[m.to] /\ Alive(x)
        /\ Deliverable(m, "SyncFin") =>
              \A pick \in Picks(m.to) :
                 LET x == handler_sync_fin(Ctx(m.to), m.to, m, pick)
                 IN IF vnode[m.to].status # "Absent"
                    THEN m.cookie \in DOMAIN vnode[m.to].syncs =>
                            m.cookie \notin DOMAIN x.vn.syncs
                    ELSE x.out = BadStatusFin(m) /\ x.vn = vnode[m.to] /\ Alive(x)

\* a SyncSend waits at a vnode that is Zombie or Absent, and a SyncAck at a vnode
\* that is Recover, Bootstrap or Absent
C5_Witness ==
    /\ \E m \in net : /\ Deliverable(m, "SyncSend")
                      /\ vnode[m.to].status \in {"Zombie", "Absent"}
    /\ \E m \in net : /\ Deliverable(m, "SyncAck")
                      /\ vnode[m.to].status \in {"Recover", "Bootstrap", "Absent"}

----------------------------------------------------------------------------
(* SpecStart: node 1 asks node 2 for a sync (start_sync) while the DHT     *)
(* takes the vnode away from node 2 and hands it back, the Zombie times    *)
(* out, and node 2 crashes and restarts.                                   *)

StartMaxCookie == 3    \* cookies handed out by gen_cookie in one behaviour

NextStart ==
    /\ \/ \E m \in net : HandlerSyncStart(m)
       \/ \E x_status \in {"Ready", "Absent"} : HandlerDhtChange(2, x_status)
       \/ StartSync(1)
       \/ HandlerTick(2)
       \/ Crash(2)
       \/ Restart(2)
       \/ AdvanceTime(GateStep)
    /\ now' <= GateMaxTime /\ nextCookie' <= StartMaxCookie + 1

SpecStart == InitGate /\ [][NextStart]_vars

\* C6: handler_sync_start creates the sender session of the cookie only when the
\* vnode is Ready, or Zombie for more than ZombieTimeout; otherwise it replies
\* SyncFin Err(BadVNodeStatus) and the session map stays as it is.
C6_SyncStartGate ==
    \A m \in net :
        Deliverable(m, "SyncStart") =>
            LET vn == vnode[m.to]
                x == handler_sync_start(Ctx(m.to), m.to, m)
            IN IF \/ vn.status = "Ready"
                  \/ vn.status = "Zombie" /\ now - vn.last_status_change > ZOMBIE_TIMEOUT_MS
               THEN /\ m.cookie \in DOMAIN x.vn.syncs
                    /\ IsSender(x.vn.syncs[m.cookie])
                    /\ DOMAIN x.vn.syncs = DOMAIN vn.syncs \cup {m.cookie}
               ELSE x.out = BadStatusFin(m) /\ x.vn = vn /\ Alive(x)

\* a Zombie holds a sender session that it created after its ZombieTimeout
C6_Witness ==
    \E n \in Node : \E c \in DOMAIN vnode[n].syncs :
        /\ vnode[n].status = "Zombie"
        /\ IsSender(vnode[n].syncs[c])
        /\ vnode[n].syncs[c].last_receive - vnode[n].last_status_change
              > ZOMBIE_TIMEOUT_MS

----------------------------------------------------------------------------
(* SpecRecover: nodes 1 and 2 own the vnode.  Node 1 coordinates writes    *)
(* and deletes, crashes without a clean shutdown and restarts into         *)
(* Recover; it syncs back from node 2, unless the DHT has taken the vnode  *)
(* away from node 2 and node 1 is the only replica left.  The clock stands *)
(* still.                                                                  *)

RecMaxCookie == 3      \* cookies handed out by gen_cookie in one behaviour

RecValues == {Some("a"), None}

NextRecover ==
    /\ \/ \E v \in RecValues : \E vv \in ClientVV(1, ReqKey) : DoSet(1, ReqKey, v, vv)
       \/ \E m \in net : HandlerSetRemote(m)
       \/ \E m \in net : HandlerSyncStart(m)
       \/ \E m \in net : HandlerSyncSend(m)
       \/ \E m \in net : HandlerSyncAck(m)
       \/ \E m \in net : HandlerSyncFin(m)
       \/ HandlerDhtChange(2, "Absent")
       \/ Crash(1)
       \/ Restart(1)
    /\ nextCookie' <= RecMaxCookie + 1

SpecRecover == InitGate /\ [][NextRecover]_vars

\* the highest version clocks.event(n) has returned so far
MaxIssued(n) == IF issued[n] = {} THEN 0
                ELSE CHOOSE m \in issued[n] : \A v \in issued[n] : v <= m

\* C7: every version that clocks.event(self) returns in storage_set_local is above
\* every version it returned before on this node, across an unclean shutdown, the
\* load, the recovery and the return to Ready.
C7_MonotonicDots ==
    \A n \in Node : (Running(n) /\ vnode[n].status = "Ready") =>
        \A k \in Key : \A v \in RecValues : \A vv \in ClientVV(n, k) :
            LET x == do_set(Ctx(n), n, nextToken, k, v, vv)
            IN \A i \in 1..Len(x.events) : x.events[i] > MaxIssued(n)

\* the node leaves Recover for Ready in this step: a session handler removes its
\* last reverse receiver, or VNode::new finds no replica to sync back from
LeavesRecover(n) ==
    /\ vnode'[n].status = "Ready"
    /\ \/ vnode[n].status = "Recover"
       \/ /\ ~up[n] /\ up'[n]
          /\ load(Ctx(n), n, RestartStatus(n), FALSE).vn.status = "Recover"

\* C8: when a vnode goes from Recover to Ready its own clock has been advanced by
\* RecoverFastForward: its base is at least the highest version issued before the
\* crash plus 1_000_000, whether the last reverse receiver was removed or
\* start_sync(reverse = true) found no peer.
C8_Step ==
    \A n \in Node :
        LeavesRecover(n) =>
            vnode'[n].clocks[n].base >= MaxIssued(n) + RECOVER_FAST_FORWARD

C8_FastForward == [][C8_Step]_vars

----------------------------------------------------------------------------
(* SpecBoot: node 1 owns the vnode and takes the writes at the start; the  *)
(* DHT hands the vnode to node 2, which bootstraps from node 1, and may    *)
(* take it away again.  Both nodes tick, the clock advances past the       *)
(* timeouts, and a message may wait for ever.  Node 3 holds no replica.    *)

BootStep == 1600       \* the time between two observations of the clock
BootMaxTime == 6400    \* the clock stops advancing here
BootMaxCookie == 3     \* cookies handed out by gen_cookie in one behaviour

InitBoot == InitWith({1})

SyncMsgs == {m \in net : m.type \in {"SyncStart", "SyncSend", "SyncAck", "SyncFin"}}

\* the client writes while no session is under way, one key after the other
WritesOpen ==
    /\ dht.pending = {}
    /\ SyncMsgs = {}
    /\ \A n \in Node : vnode[n].syncs = EmptyMap

BootWrite == WritesOpen /\ DoSet(1, KeySeq[nextToken], Some("a"), VVNew)

NextBoot ==
    /\ \/ now = 0 /\ BootWrite
       \/ \E x_status \in {"Ready", "Absent"} : HandlerDhtChange(2, x_status)
       \/ \E m \in net : HandlerSyncStart(m)
       \/ \E m \in net : HandlerSyncSend(m)
       \/ \E m \in net : HandlerSyncAck(m)
       \/ \E m \in net : HandlerSyncFin(m)
       \/ \E n \in {1, 2} : HandlerTick(n)
       \/ AdvanceTime(BootStep)
    /\ now' <= BootMaxTime /\ nextCookie' <= BootMaxCookie + 1

SpecBoot == InitBoot /\ [][NextBoot]_vars

\* C9: a handler_tick that finds a SyncReceiver or BootstrapReceiver which has taken
\* no SyncSend for more than SyncTimeout removes it, and puts a BootstrapReceiver
\* with a fresh cookie in the place of a BootstrapReceiver.
C9_QuietReceiverRemoved ==
    \A n \in Node : Running(n) =>
        \A c \in Receivers(vnode[n]) :
            (c \in DOMAIN quiet_since[n]
               /\ now - quiet_since[n][c] > SYNC_TIMEOUT_MS) =>
                \A pick \in Picks(n) :
                    LET x == handler_tick(Ctx(n), n, pick)
                    IN /\ c \notin DOMAIN x.vn.syncs
                       /\ vnode[n].syncs[c].kind = "BootstrapReceiver" =>
                             \E d \in DOMAIN x.vn.syncs :
                                /\ d >= nextCookie
                                /\ x.vn.syncs[d].kind = "BootstrapReceiver"

----------------------------------------------------------------------------
(* SpecRejoin: as SpecBoot with the clock standing still and no tick, and  *)
(* node 2 may crash and restart: a node that leaves the vnode and joins    *)
(* again bootstraps a second time.                                         *)

RejoinMaxCookie == 3   \* cookies handed out by gen_cookie in one behaviour

NextRejoin ==
    /\ \/ BootWrite
       \/ \E x_status \in {"Ready", "Absent"} : HandlerDhtChange(2, x_status)
       \/ \E m \in net : HandlerSyncStart(m)
       \/ \E m \in net : HandlerSyncSend(m)
       \/ \E m \in net : HandlerSyncAck(m)
       \/ \E m \in net : HandlerSyncFin(m)
       \/ Crash(2)
       \/ Restart(2)
    /\ nextCookie' <= RejoinMaxCookie + 1

SpecRejoin == InitBoot /\ [][NextRejoin]_vars

\* the successful SyncFin messages that a BootstrapReceiver of their cookie can take
BootFins ==
    {m \in net : /\ m.type = "SyncFin" /\ m.result.ok /\ Running(m.to)
                 /\ m.cookie \in DOMAIN vnode[m.to].syncs
                 /\ vnode[m.to].syncs[m.cookie].kind = "BootstrapReceiver"
                 /\ vnode[m.to].syncs[m.cookie].peer = m.from}

\* C10: the BootstrapReceiver that takes a successful SyncFin becomes Ready with
\* every key of the sender's storage scan in its storage and the sender's clocks
\* snapshot within its clocks.  (The sender takes no write during a session, so
\* that its storage is what the scan emitted.)
C10_BootstrapComplete ==
    \A m \in BootFins : \A pick \in Picks(m.to) :
        LET x == handler_sync_fin(Ctx(m.to), m.to, m, pick)
        IN /\ x.vn.status = "Ready"
           /\ BVVSubset(m.result.bvv, x.vn.clocks)
           /\ DOMAIN vnode[m.from].storage \subseteq DOMAIN x.vn.storage

----------------------------------------------------------------------------
(* SpecStore: nodes 1 and 2 own the vnode and both coordinate writes,      *)
(* overwrites and deletes on two keys; the RemoteSet messages arrive in    *)
(* any order or never, and node 2 syncs from node 1.  The clock stands     *)
(* still.                                                                  *)

StoreMaxCookie == 3    \* cookies handed out by gen_cookie in one behaviour

StoreValues == {Some("a"), Some("b"), None}

NextStore ==
    /\ \/ \E n \in {1, 2} : \E k \in Key : \E v \in StoreValues :
             \E vv \in ClientVV(n, k) : DoSet(n, k, v, vv)
       \/ \E m \in net : HandlerSetRemote(m)
       \/ StartSync(2)
       \/ \E m \in net : HandlerSyncStart(m)
       \/ \E m \in net : HandlerSyncSend(m)
       \/ \E m \in net : HandlerSyncAck(m)
       \/ \E m \in net : HandlerSyncFin(m)
    /\ nextCookie' <= StoreMaxCookie + 1

SpecStore == InitGate /\ [][NextStore]_vars

\* the same clocks, and the same container read for every key (a stored container
\* is stripped of what the clocks cover, storage_get fills it again)
SameStore(a, b) ==
    /\ a.vn.clocks = b.vn.clocks
    /\ \A k \in Key : storage_get(a.vn, k) = storage_get(b.vn, k)

\* the SyncSend stream of a bootstrap: storage_set_remote on every scanned item
RECURSIVE ApplyScan(_, _, _)
ApplyScan(ctx, self, items) ==
    IF items = <<>> THEN ctx
    ELSE ApplyScan(storage_set_remote(ctx, self, Head(items)[1], Head(items)[2]),
                   self, Tail(items))

\* a whole bootstrap of node self from the storage and clocks of node src
BootstrapFrom(ctx, self, src) ==
    LET c == ApplyScan(ctx, self, StorageScan(vnode[src].storage))
    IN [c EXCEPT !.vn.clocks = BVVMerge(@, vnode[src].clocks)]

----------------------------------------------------------------------------
(* SpecZombie: the DHT takes the vnode away from node 2 and may hand it    *)
(* back; clients still send reads to node 2, which no replica may answer.  *)
(* No session runs at node 2 while it is Zombie.  The tick is periodic and *)
(* the clock advances: both are weakly fair.                               *)

ZombStep == 3150       \* the time between two observations of the clock
ZombMaxTime == 9450    \* the clock stops advancing here
ZombMaxCookie == 3     \* cookies handed out by gen_cookie in one behaviour

ZombBounds == now' <= ZombMaxTime /\ nextCookie' <= ZombMaxCookie + 1

\* the vnode is taken away only while the clock can still reach the Zombie timeout
ZombOpen == now + 2 * ZombStep <= ZombMaxTime

NextZombie ==
    /\ \/ ZombOpen /\ HandlerDhtChange(2, "Absent")
       \/ HandlerDhtChange(2, "Ready")
       \/ now + ZombStep <= ZombMaxTime /\ DoGet(2, ReqKey)
       \/ HandlerTick(2)
       \/ AdvanceTime(ZombStep)
    /\ ZombBounds

SpecZombie ==
    /\ InitGate
    /\ [][NextZombie]_vars
    /\ WF_vars(HandlerTick(2) /\ ZombBounds)
    /\ WF_vars(AdvanceTime(ZombStep) /\ ZombBounds)

\* a Zombie with no session and no request in flight
ZombieIdle(n) ==
    /\ Running(n)
    /\ vnode[n].status = "Zombie"
    /\ vnode[n].syncs = EmptyMap
    /\ vnode[n].inflight = EmptyMap

\* C12 (safety): a handler_tick that finds a Zombie with no session and no request
\* in flight more than ZombieTimeout after its last status change makes it Absent.
C12_TickRetires ==
    \A n \in Node :
        (ZombieIdle(n) /\ Elapsed(vnode[n].last_status_change) > ZOMBIE_TIMEOUT_MS) =>
            \A pick \in Picks(n) :
                handler_tick(Ctx(n), n, pick).vn.status = "Absent"

\* C12: with periodic ticks a Zombie with no session and no request in flight
\* becomes Absent at the first tick after ZombieTimeout, unless the DHT hands the
\* vnode back to it or a request arrives before.
C12_ZombieRetires ==
    /\ []C12_TickRetires
    /\ \A n \in Node :
          ZombieIdle(n) ~> (vnode[n].status \in {"Absent", "Ready"}
                              \/ vnode[n].inflight # EmptyMap)

\* a Zombie has become Absent: nothing of it is left on the owner list, it is up
\* and its last status change is at a tick after the timeout
C12_Witness ==
    /\ Running(2)
    /\ vnode[2].status = "Absent"
    /\ vnode[2].last_status_change > ZOMBIE_TIMEOUT_MS

----------------------------------------------------------------------------
(* SpecRetire: the DHT takes the vnode away from node 2 and may hand it    *)
(* back.  While node 2 is Zombie it still starts syncs from node 1 and     *)
(* coordinates reads, and a SyncStart that node 1 sent before may reach    *)
(* it; node 1 answers the SyncStart messages of node 2.  Node 2 ticks and  *)
(* the clock advances past the Zombie and sync timeouts.                   *)

RetMaxCookie == 3      \* cookies handed out by gen_cookie in one behaviour

NextRetire ==
    /\ \/ \E x_status \in {"Ready", "Absent"} : HandlerDhtChange(2, x_status)
       \/ now = 0 /\ StartSync(1)
       \/ vnode[2].status = "Zombie" /\ StartSync(2)
       \/ vnode[2].status = "Zombie" /\ DoGet(2, ReqKey)
       \/ \E m \in net : HandlerSyncStart(m)
       \/ \E m \in net : m.to = 2 /\ HandlerSyncFin(m)
       \/ HandlerTick(2)
       \/ AdvanceTime(GateStep)
    /\ now' <= GateMaxTime /\ nextCookie' <= RetMaxCookie + 1

SpecRetire == InitGate /\ [][NextRetire]_vars

\* node n goes from Zombie to Absent in this step
Retires(n) ==
    /\ up[n] /\ up'[n]
    /\ vnode[n].status = "Zombie"
    /\ vnode'[n].status = "Absent"

\* C13: a vnode goes from Zombie to Absent only in handler_tick, with no session and
\* no request left and more than ZombieTimeout after its last status change; the
\* sessions and requests it held before that tick are the ones the tick itself
\* timed out, and a Zombie that keeps a session stays Zombie.
C13_Step ==
    \A n \in Node :
        Retires(n) =>
            /\ \E pick \in Picks(n) : vnode'[n] = handler_tick(Ctx(n), n, pick).vn
            /\ vnode'[n].syncs = EmptyMap
            /\ vnode'[n].inflight = EmptyMap
            /\ Elapsed(vnode[n].last_status_change) > ZOMBIE_TIMEOUT_MS
            /\ \A c \in DOMAIN vnode[n].syncs :
                  Elapsed(vnode[n].syncs[c].last_receive) > SYNC_TIMEOUT_MS
            /\ \A c \in DOMAIN vnode[n].inflight : vnode[n].inflight[c].expire <= now

C13_ZombieToAbsent == [][C13_Step]_vars

\* node 2 went from Zombie to Absent, after it had answered a read with Timeout
\* as a Zombie
C13_Witness ==
    /\ Running(2)
    /\ vnode[2].status = "Absent"
    /\ vnode[2].last_status_change > ZOMBIE_TIMEOUT_MS
    /\ \E t \in Token : Answered(t)

----------------------------------------------------------------------------
(* The logs: claims, under SpecStore.  PEER_LOG_SIZE is 21845 entries, so  *)
(* that no log rotates in these behaviours.                                *)

\* the log a node keeps for the dots of node m
LogOf(n, m) == IF m = n THEN vnode[n].log ELSE vnode[n].peers[m]

\* C14: every dot (m, v) that storage_set_local produced or storage_set_remote
\* accepted for key k, and that is still stored, is in the log of m under k: log
\* for the node's own dots, peers[m] for the dots of another node, in whatever
\* order the dots of m arrived.
C14_LogRetention ==
    \A n \in Node : Running(n) =>
        \A k \in DOMAIN vnode[n].storage :
            \A x \in DccVersions(vnode[n].storage[k]) :
                PeerGet(LogOf(n, x[1]), x[2]) = Some(k)

(* SpecRelog: nodes 1 and 2 own the vnode and node 2 coordinates writes   *)
(* at the start; the DHT takes the vnode away from node 2 and hands it     *)
(* back, node 2 retires from Zombie to Absent at a tick after the timeout, *)
(* and node 1 syncs from node 2.                                           *)

RelogMaxCookie == 3    \* cookies handed out by gen_cookie in one behaviour

NextRelog ==
    /\ \/ \E x_status \in {"Ready", "Absent"} : HandlerDhtChange(2, x_status)
       \/ now = 0 /\ vnode[2].status = "Ready" /\ DoSet(2, ReqKey, Some("a"), VVNew)
       \/ vnode[2].status = "Ready" /\ nextToken > 1 /\ StartSync(1)
       \/ \E m \in net : HandlerSyncStart(m)
       \/ \E m \in net : HandlerSyncSend(m)
       \/ \E m \in net : HandlerSyncAck(m)
       \/ \E m \in net : HandlerSyncFin(m)
       \/ HandlerTick(2)
       \/ AdvanceTime(GateStep)
    /\ now' <= GateMaxTime /\ nextCookie' <= RelogMaxCookie + 1

SpecRelog == InitGate /\ [][NextRelog]_vars

\* the keys a sender's iterator yields when it is run to its end on storage
RECURSIVE IterKeys(_, _)
IterKeys(it, storage) ==
    LET nx == IterNext(it, storage)
    IN IF nx.item = None THEN {}
       ELSE {nx.item.some[1]} \cup IterKeys(nx.iterator, storage)

\* the SyncStart messages of a sync that handler_sync_start would serve now
SyncStarts ==
    {m \in net : /\ m.type = "SyncStart" /\ m.target # None
                 /\ Running(m.to)
                 /\ SyncStartAllowed(vnode[m.to])
                 /\ m.cookie \notin DOMAIN vnode[m.to].syncs}

\* the stored keys with a dot (target, v), v in clock_snapshot.delta(clock_in_peer)
DeltaStored(vn, target, clock_snapshot, clock_in_peer) ==
    {k \in DOMAIN vn.storage :
        \E x \in DccVersions(vn.storage[k]) :
            /\ x[1] = target
            /\ BVContains(clock_snapshot, x[2])
            /\ ~BVContains(clock_in_peer, x[2])}

\* C15: when the log for target has min_version <= clock_in_peer.base, the
\* iterator of the SyncSender yields exactly the stored keys with a dot
\* (target, v), v in clock_snapshot.delta(clock_in_peer): none is left out, also
\* when the log for target is empty, and no other key is sent.
C15_LogIterator ==
    \A m \in SyncStarts :
        LET vn == vnode[m.to]
            s == new_sync_sender(vn, m.to, m.from, m)
        IN s.iterator.mode = "log" =>
              IterKeys(s.iterator, vn.storage)
                 = DeltaStored(vn, s.target, s.clock_snapshot, s.clock_in_peer)

----------------------------------------------------------------------------
(* The containers: claims, under SpecStore *)

\* C16: two storage_set_local calls for one key with an empty client version
\* vector leave both values readable by storage_get as siblings, next to what the
\* key held before, and a following storage_set_local whose version vector is
\* the one of that read leaves the value it writes and nothing that the vector
\* covers: exactly the new value on a key that held nothing before.
C16_Siblings ==
    \A n \in Node : Running(n) =>
        \A k \in Key : \A v1, v2 \in Value :
            LET v3 == CHOOSE v \in Value : v # v2
                before == storage_get(vnode[n], k)
                x1 == storage_set_local(Ctx(n), n, k, Some(v1), VVNew)
                x2 == storage_set_local(x1, n, k, Some(v2), VVNew)
                read == storage_get(x2.vn, k)
                x3 == storage_set_local(x2, n, k, Some(v3), read.vv)
                after == storage_get(x3.vn, k)
            IN /\ read.dots = before.dots \cup {<<n, x2.events[1], v1>>,
                                                <<n, x2.events[2], v2>>}
               /\ x2.events[1] # x2.events[2]
               /\ read.vv[n] >= x2.events[2]
               /\ after.dots = {<<n, x3.events[3], v3>>}
                                 \cup {x \in before.dots : x[2] > read.vv[x[1]]}
               /\ before.dots = {} =>
                      /\ Cardinality(read.dots) = 2
                      /\ after.dots = {<<n, x3.events[3], v3>>}

\* a node stores two siblings that it wrote itself, and a key it stores nothing
\* for
C16_Witness ==
    \E n \in Node : \E k \in Key :
        /\ Running(n)
        /\ Cardinality(storage_get(vnode[n], k).dots) = 2
        /\ \A x \in storage_get(vnode[n], k).dots : x[1] = n
        /\ \E k2 \in Key : storage_get(vnode[n], k2).dots = {}

----------------------------------------------------------------------------
(* The fabric: claims *)

\* C17: a handler whose message finds no connection to the peer (send_msg returns
\* NoRoute) completes normally and leaves the vnode as if the message had been
\* sent and lost: no panic, the same vnode state, and the other messages sent.
C17_NoRouteIsDrop ==
    /\ \A m \in net :
          LET n == m.to
              lost == CtxNoRoute(n, {m.from})
              Dropped(x, y) == /\ Alive(x)
                               /\ x.vn = y.vn
                               /\ x.out = {o \in y.out : o.to # m.from}
          IN /\ Deliverable(m, "RemoteSet") =>
                    Dropped(handler_set_remote(lost, n, m),
                            handler_set_remote(Ctx(n), n, m))
             /\ Deliverable(m, "RemoteGet") =>
                    Dropped(handler_get_remote(lost, n, m),
                            handler_get_remote(Ctx(n), n, m))
             /\ Deliverable(m, "SyncStart") =>
                    Dropped(handler_sync_start(lost, n, m),
                            handler_sync_start(Ctx(n), n, m))
             /\ Deliverable(m, "SyncSend") =>
                    Dropped(handler_sync_send(lost, n, m),
                            handler_sync_send(Ctx(n), n, m))
             /\ Deliverable(m, "SyncAck") =>
                    Dropped(handler_sync_ack(lost, n, m),
                            handler_sync_ack(Ctx(n), n, m))
    /\ \A n \in Node : \A p \in Node \ {n} :
          Running(n) /\ vnode[n].status = "Ready" =>
              LET x == start_sync(CtxNoRoute(n, {p}), n, FALSE)
                  y == start_sync(Ctx(n), n, FALSE)
              IN Alive(y) => /\ Alive(x)
                             /\ x.vn = y.vn
                             /\ x.out = {o \in y.out : o.to # p}

----------------------------------------------------------------------------
(* The fabric of node 1 toward node 2, as in the test of fabric.rs: the    *)
(* connections come and go, send_msg queues on one of them, send_all       *)
(* writes the queue to the socket and the reader of the peer dispatches.   *)

\* Fabric::steady_connection: a connection to the peer is registered
FabricConnect ==
    /\ fabric.connection_gen < FabMaxConns
    /\ Cardinality(fabric.connections) < FabPipes
    /\ fabric' = register_connection(fabric)

FabricSendMsg ==
    \E msg \in FabMsg :
        /\ msg = Cardinality(fabric.sent \cup fabric.noroute) + 1
        /\ \E pick \in (IF fabric.connections = {} THEN ConnId ELSE fabric.connections) :
              fabric' = send_msg(fabric, pick, msg)

\* socket_tx.send_all(chan_rx): the oldest queued message goes to the socket
FabricWrite(c) ==
    /\ c \in fabric.connections
    /\ fabric.chan[c] # <<>>
    /\ fabric' = [fabric EXCEPT !.chan[c] = Tail(@),
                                !.wire[c] = Append(@, Head(fabric.chan[c]))]

\* socket_rx.for_each at the peer: the oldest message on the wire is dispatched
FabricRead(c) ==
    /\ fabric.wire[c] # <<>>
    /\ fabric' = [dispatch(fabric, Head(fabric.wire[c])) EXCEPT !.wire[c] = Tail(@)]

FabricClose(c) ==
    /\ c \in fabric.connections
    /\ \E reset \in BOOLEAN : fabric' = steady_connection_end(fabric, c, reset)

NextFabric ==
    /\ \/ FabricConnect
       \/ FabricSendMsg
       \/ \E c \in ConnId : FabricWrite(c)
       \/ \E c \in ConnId : FabricRead(c)
       \/ \E c \in ConnId : FabricClose(c)
    /\ UNCHANGED <<vnode, meta, net, now, dht, responses, nextCookie, nextToken, issued,
                   panicked, up, quiet_since>>

SpecFabric == InitGate /\ [][NextFabric]_vars

Dispatches(msg) ==
    Cardinality({i \in DOMAIN fabric.dispatched : fabric.dispatched[i] = msg})

FabricQuiet == \A c \in ConnId : fabric.chan[c] = <<>> /\ fabric.wire[c] = <<>>

\* C18 as stated: once nothing is queued or on the wire any more, every message
\* send_msg returned Ok for has been dispatched exactly once.
C18_ExactlyOnce ==
    FabricQuiet => \A msg \in fabric.sent : Dispatches(msg) = 1

\* C18, amended: a message send_msg returned Ok for is dispatched at most once,
\* only such messages are dispatched, and once nothing is queued or on the wire
\* every one of them has been dispatched exactly once or was held by a
\* connection that closed; the messages of one connection are dispatched in the
\* order of their send_msg calls.
C18_AtMostOnce ==
    /\ \A msg \in FabMsg : Dispatches(msg) <= 1
    /\ SeqToSet(fabric.dispatched) \subseteq fabric.sent
    /\ fabric.lost \cap SeqToSet(fabric.dispatched) = {}
    /\ FabricQuiet =>
          \A msg \in fabric.sent : Dispatches(msg) = 1 \/ msg \in fabric.lost
    /\ \A c \in ConnId :
          LET q == fabric.wire[c] \o fabric.chan[c]
          IN \A i, j \in DOMAIN q : i < j => q[i] < q[j]

\* the three messages of the test were sent over two connections and each was
\* dispatched
C18_Witness ==
    /\ FabricQuiet
    /\ fabric.sent = FabMsg
    /\ \A msg \in FabMsg : Dispatches(msg) = 1
    /\ fabric.lost = {}
    /\ fabric.connections = {0, 1}

----------------------------------------------------------------------------
(* Requests: claims about the quorum, under SpecReq (three replicas)       *)

\* Config::consistency_read, as the number of successful replies it asks for
ReadConsistency == 1 .. Cardinality(Node)

\* C19: whatever read consistency is configured, do_get creates its ReqState
\* with total the number of replicas and required the configured consistency,
\* and a request that needs two successful replies or more is not answered by
\* the single reply do_get itself produces (the local read).
C19_ReadQuorum ==
    \A n \in Node : \A r \in ReadConsistency :
        Running(n) /\ nextToken <= MaxToken =>
            LET x == do_get(Ctx(n), n, nextToken, ReqKey)
                total == Cardinality(nodes_for_vnode(FALSE))
            IN /\ nextCookie \in DOMAIN x.vn.inflight =>
                     /\ x.vn.inflight[nextCookie].total = total
                     /\ x.vn.inflight[nextCookie].required = r
               /\ r >= 2 /\ total >= 2 => x.resp = <<>>

\* C20: the response do_set gives the client carries the container that
\* storage_set_local returned for the write, the local one.
C20_SetResponse ==
    \A n \in Node : \A v \in ReqValues : \A vv \in ClientVV(n, ReqKey) :
        Running(n) /\ vnode[n].status = "Ready" /\ nextToken <= MaxToken =>
            LET x == do_set(Ctx(n), n, nextToken, ReqKey, v, vv)
                local == storage_set_local(GenCookie(Ctx(n)), n, ReqKey, v, vv).ret
            IN \A i \in DOMAIN x.resp :
                  x.resp[i].kind = "set" => x.resp[i].container = local

----------------------------------------------------------------------------
(* The DHT changes: claims *)

CancelFins(n, vn, cookies) ==
    {MsgSyncFin(n, vn.syncs[c].peer, c, Err("BadVNodeStatus")) : c \in cookies}

\* C21: handler_dht_change(Absent) on a Ready or Bootstrap vnode removes every
\* receiver session and sends the peer of each an error SyncFin, keeps every
\* sender session as it is, empties sync_nodes and leaves the vnode in Zombie.
C21_AbsentCancels ==
    \A n \in Node :
        Running(n) /\ vnode[n].status \in {"Ready", "Bootstrap"} =>
            LET x == handler_dht_change(Ctx(n), n, "Absent", n)
            IN /\ Alive(x)
               /\ x.vn.status = "Zombie"
               /\ Receivers(x.vn) = {}
               /\ x.out = CancelFins(n, vnode[n], Receivers(vnode[n]))
               /\ DOMAIN x.vn.syncs = Senders(vnode[n])
               /\ \A c \in Senders(vnode[n]) : x.vn.syncs[c] = vnode[n].syncs[c]
               /\ x.vn.sync_nodes = {}

\* the DHT takes the vnode from a Ready node that holds a receiver next to a
\* sender, and from a node in Bootstrap
C21_Witness ==
    /\ \E n \in Node : /\ Running(n) /\ vnode[n].status = "Ready"
                       /\ Receivers(vnode[n]) # {} /\ Senders(vnode[n]) # {}
                       /\ vnode[n].sync_nodes # {}
    /\ \E n \in Node : /\ Running(n) /\ vnode[n].status = "Bootstrap"
                       /\ Receivers(vnode[n]) # {}

\* C22: handler_dht_change(Absent) on a vnode in Recover with its reverse
\* receivers pending cancels those receivers, with an error SyncFin to the peer
\* of each, and leaves the vnode in Absent.
C22_RecoverToAbsent ==
    \A n \in Node :
        Running(n) /\ vnode[n].status = "Recover" /\ Receivers(vnode[n]) # {} =>
            LET x == handler_dht_change(Ctx(n), n, "Absent", n)
            IN /\ Alive(x)
               /\ Receivers(x.vn) = {}
               /\ x.out = CancelFins(n, vnode[n], Receivers(vnode[n]))
               /\ x.vn.status = "Absent"

----------------------------------------------------------------------------
(* SpecJoin: the DHT takes the vnode from nodes 1 and 2 and hands it back, *)
(* in any order; a Zombie times out and a node handed the vnode again      *)
(* bootstraps from the replicas left, or finds none.                       *)

JoinMaxCookie == 4

NextJoin ==
    /\ \/ \E n \in {1, 2} : \E x_status \in {"Ready", "Absent"} :
             HandlerDhtChange(n, x_status)
       \/ \E n \in {1, 2} : HandlerTick(n)
       \/ \E m \in net : HandlerSyncStart(m)
       \/ AdvanceTime(GateStep)
    /\ now' <= GateMaxTime /\ nextCookie' <= JoinMaxCookie + 1

SpecJoin == InitGate /\ [][NextJoin]_vars

\* C23: handler_dht_change(Ready) on an Absent vnode with another replica sets
\* Bootstrap, creates exactly one session, a BootstrapReceiver under a fresh
\* cookie whose peer is one of the other replicas, and sends that peer a
\* SyncStart with neither target nor clock_in_peer; with no other replica it sets
\* Ready, creates no session and sends nothing.
C23_StartBootstrap ==
    \A n \in Node : Running(n) /\ vnode[n].status = "Absent" =>
        \A pick \in Picks(n) :
            LET x == handler_dht_change(Ctx(n), n, "Ready", pick)
                others == nodes_for_vnode(FALSE) \ {n}
                c == nextCookie
            IN /\ Alive(x)
               /\ IF others # {}
                  THEN /\ x.vn.status = "Bootstrap"
                       /\ c \notin DOMAIN vnode[n].syncs
                       /\ \A m \in Node : c \notin DOMAIN vnode[m].syncs
                       /\ DOMAIN x.vn.syncs = DOMAIN vnode[n].syncs \cup {c}
                       /\ x.vn.syncs[c].kind = "BootstrapReceiver"
                       /\ x.vn.syncs[c].cookie = c
                       /\ x.vn.syncs[c].peer \in others
                       /\ x.out = {MsgSyncStart(n, x.vn.syncs[c].peer, c, None, None)}
                  ELSE /\ x.vn.status = "Ready"
                       /\ x.vn.syncs = vnode[n].syncs
                       /\ x.out = {}

\* node 2 was handed the vnode when no replica was left and is Ready without a
\* session or a message, the first cookie spent; node 1, handed the vnode after
\* it, bootstraps from node 2 under the second cookie
C23_Witness ==
    /\ dht.owners = {2}
    /\ Running(2) /\ vnode[2].status = "Ready" /\ vnode[2].syncs = EmptyMap
    /\ Running(1) /\ vnode[1].status = "Bootstrap"
    /\ DOMAIN vnode[1].syncs = {2}
    /\ vnode[1].syncs[2].kind = "BootstrapReceiver"
    /\ net = {MsgSyncStart(1, 2, 2, None, None)}
    /\ nextCookie = 3

----------------------------------------------------------------------------
(* The recovery: claims, under SpecRecover *)

\* C24: a vnode in Recover becomes Ready only in a step that processes a
\* successful SyncFin from the peer of a reverse SyncReceiver it started; no
\* other end of a reverse receiver, an error SyncFin or a timeout, completes the
\* recovery.
C24_Step ==
    \A n \in Node :
        vnode[n].status = "Recover" /\ vnode'[n].status = "Ready" =>
            \E m \in net \ net' :
                /\ m.type = "SyncFin" /\ m.to = n /\ m.result.ok
                /\ m.cookie \in DOMAIN vnode[n].syncs
                /\ vnode[n].syncs[m.cookie].kind = "SyncReceiver"
                /\ vnode[n].syncs[m.cookie].target = n
                /\ vnode[n].syncs[m.cookie].peer = m.from

C24_RecoverCompletes == [][C24_Step]_vars

----------------------------------------------------------------------------
(* SpecWindow: node 1 has coordinated WinWrites writes on two keys, each    *)
(* with the version vector of the read before it, and node 2 has received  *)
(* the first of them only.  Node 2 asks node 1 for a sync: the sender runs  *)
(* from the log over more versions than its window holds.  The messages    *)
(* are handled in any order; the clock stands still.                       *)

WinWrites == 12

RECURSIVE WinWritten(_, _)
WinWritten(ctx, i) ==
    IF i = 0 THEN ctx
    ELSE LET prev == WinWritten(ctx, i - 1)
             key == KeySeq[(i % 2) + 1]
         IN storage_set_local(prev, 1, key, Some("a"), storage_get(prev.vn, key).vv)

WinCoord == WinWritten(vnode_new(InitCtx, 1, "Ready", TRUE, 1), WinWrites)

WinPeer == storage_set_remote(vnode_new(InitCtx, 2, "Ready", TRUE, 2), 2, KeySeq[2],
                              WinWritten(vnode_new(InitCtx, 1, "Ready", TRUE, 1), 1).ret)

InitWindow ==
    /\ now = 0
    /\ dht = [owners |-> {1, 2}, pending |-> {}]
    /\ vnode = [n \in Node |-> IF n = 1 THEN WinCoord.vn
                               ELSE IF n = 2 THEN WinPeer.vn
                               ELSE vnode_new(InitCtx, n, "Absent", FALSE, n).vn]
    /\ meta = [n \in Node |-> IF n = 1 THEN WinCoord.meta
                              ELSE IF n = 2 THEN WinPeer.meta
                              ELSE vnode_new(InitCtx, n, "Absent", FALSE, n).meta]
    /\ net = {}
    /\ responses = [t \in Token |-> <<>>]
    /\ nextCookie = 1
    /\ nextToken = 1
    /\ issued = [n \in Node |-> IF n = 1 THEN 1 .. WinWrites ELSE {}]
    /\ panicked = [n \in Node |-> NoPanic]
    /\ up = [n \in Node |-> TRUE]
    /\ quiet_since = [n \in Node |-> EmptyMap]
    /\ fabric = FabricNew

NextWindow ==
    \/ nextCookie = 1 /\ StartSync(2)
    \/ \E m \in net : HandlerSyncStart(m)
    \/ \E m \in net : HandlerSyncSend(m)
    \/ \E m \in net : HandlerSyncAck(m)
    \/ \E m \in net : HandlerSyncFin(m)

SpecWindow == InitWindow /\ [][NextWindow]_vars

SendsOf(n, c) == {m \in net : m.type = "SyncSend" /\ m.from = n /\ m.cookie = c}

C25_Inv ==
    \A n \in Node : \A c \in Senders(vnode[n]) :
        LET s == vnode[n].syncs[c]
        IN /\ Cardinality(DOMAIN s.inflight) <= SYNC_INFLIGHT_MAX
           /\ DOMAIN s.inflight \subseteq 0 .. s.count - 1
           /\ \A m \in SendsOf(n, c) :
                 /\ m.seq < s.count
                 /\ m.seq \in DOMAIN s.inflight =>
                       /\ m.key = s.inflight[m.seq].key
                       /\ m.container = s.inflight[m.seq].dcc
                 /\ \A m2 \in SendsOf(n, c) : m2.seq = m.seq => m2 = m

C25_Step ==
    \A n \in Node : \A c \in Senders(vnode[n]) \cap Senders(vnode'[n]) :
        LET s == vnode[n].syncs[c]
            t == vnode'[n].syncs[c]
        IN /\ t.count >= s.count
           /\ \A seq \in DOMAIN s.inflight \cap DOMAIN t.inflight :
                 /\ t.inflight[seq].key = s.inflight[seq].key
                 /\ t.inflight[seq].dcc = s.inflight[seq].dcc
           /\ DOMAIN t.inflight \ DOMAIN s.inflight \subseteq s.count .. t.count - 1

\* C25: a SyncSender or BootstrapSender never has more than SyncInflightMax
\* entries in flight, its count never decreases, every sequence number in flight
\* or in a SyncSend is below count, and a sequence number stands for one key and
\* container: it is put in flight once, when count passes it, and every SyncSend
\* that carries it carries that key and container.
C25_SenderWindow == []C25_Inv /\ [][C25_Step]_vars

\* the window is full while the iterator has more to send
C25_Witness ==
    \E n \in Node : \E c \in Senders(vnode[n]) :
        /\ Cardinality(DOMAIN vnode[n].syncs[c].inflight) = SYNC_INFLIGHT_MAX
        /\ vnode[n].syncs[c].iterator.items # <<>>
        /\ vnode[n].syncs[c].iterator.mode = "log"

SuccessFins(msgs, n, c) ==
    {m \in msgs : m.type = "SyncFin" /\ m.from = n /\ m.cookie = c /\ m.result.ok}

C26_Step ==
    \A n \in Node : \A c \in Senders(vnode'[n]) :
        LET t == vnode'[n].syncs[c]
        IN /\ SuccessFins(net' \ net, n, c) # {} =>
                 /\ t.inflight = EmptyMap
                 /\ IterNext(t.iterator, vnode'[n].storage).item = None
           /\ c \in Senders(vnode[n]) =>
                 \A seq \in DOMAIN vnode[n].syncs[c].inflight \ DOMAIN t.inflight :
                     \E m \in net \ net' : /\ m.type = "SyncAck" /\ m.to = n
                                           /\ m.cookie = c /\ m.seq = seq

\* C26: a sender sends the success SyncFin only in a step that leaves its
\* iterator exhausted and its inflight empty, and an entry leaves inflight only
\* in a step that handles a SyncAck with the cookie and the seq of that entry.
C26_FinAfterAcks == [][C26_Step]_vars

\* the success SyncFin of a sender that sent more than a window of entries
C26_Witness ==
    \E n \in Node : \E c \in Senders(vnode[n]) :
        /\ SuccessFins(net, n, c) # {}
        /\ vnode[n].syncs[c].count > SYNC_INFLIGHT_MAX
        /\ vnode[n].syncs[c].inflight = EmptyMap

\* C27: a handler_tick at a sender whose success SyncFin is on its way, with no
\* message from the peer handled in between, sends no SyncFin for that session.
C27_FinSentOnce ==
    \A n \in Node : Running(n) =>
        \A c \in Senders(vnode[n]) :
            SuccessFins(net, n, c) # {} =>
                \A pick \in Picks(n) :
                    LET x == handler_tick(Ctx(n), n, pick)
                    IN {m \in x.out : m.type = "SyncFin" /\ m.cookie = c} = {}

C28_Inv ==
    \A n \in Node : Running(n) =>
        \A c \in Senders(vnode[n]) :
            LET s == vnode[n].syncs[c]
                x == send_next(Ctx(n), n, c)
                t == x.vn.syncs[c].inflight
            IN \A seq \in DOMAIN s.inflight :
                   LET e == s.inflight[seq]
                       again == MsgSyncSend(n, s.peer, c, seq, e.key, e.dcc)
                   IN /\ seq \in DOMAIN t
                      /\ t[seq].key = e.key /\ t[seq].dcc = e.dcc
                      /\ IF e.expire < now
                         THEN /\ again \in x.out
                              /\ t[seq].expire = now + SYNC_INFLIGHT_TIMEOUT_MS
                         ELSE e.expire > now =>
                                 /\ t[seq].expire = e.expire
                                 /\ {m \in x.out : m.type = "SyncSend" /\ m.seq = seq} = {}

C28_Step ==
    \A n \in Node : \A c \in Senders(vnode[n]) \cap Senders(vnode'[n]) :
        \A seq \in DOMAIN vnode[n].syncs[c].inflight :
            \/ /\ seq \in DOMAIN vnode'[n].syncs[c].inflight
               /\ vnode'[n].syncs[c].inflight[seq].key = vnode[n].syncs[c].inflight[seq].key
               /\ vnode'[n].syncs[c].inflight[seq].dcc = vnode[n].syncs[c].inflight[seq].dcc
            \/ \E m \in net \ net' : /\ m.type = "SyncAck" /\ m.to = n
                                     /\ m.cookie = c /\ m.seq = seq

\* C28: the send loop sends an inflight entry whose deadline has passed again, as a
\* SyncSend with the seq, key and container it is stored under, and re-arms it to
\* now + SYNC_INFLIGHT_TIMEOUT_MS, and leaves the other entries as they are; an entry
\* stays in inflight with its key and container while the session lasts, until a
\* step handles a SyncAck with its seq.
C28_Retransmit == []C28_Inv /\ [][C28_Step]_vars

\* an entry that was sent again and re-armed, its SyncSend on the way
C28_Witness ==
    \E n \in Node : \E c \in Senders(vnode[n]) :
        LET s == vnode[n].syncs[c]
        IN \E seq \in DOMAIN s.inflight :
               /\ s.inflight[seq].expire > s.last_receive + SYNC_INFLIGHT_TIMEOUT_MS
               /\ MsgSyncSend(n, s.peer, c, seq, s.inflight[seq].key,
                              s.inflight[seq].dcc) \in net

\* the vnode state with the sessions left out
Stored(vn) == <<vn.storage, vn.clocks, vn.log>>

C29_Inv ==
    \A m \in net :
        (/\ Deliverable(m, "SyncSend")
         /\ vnode[m.to].status \in {"Ready", "Recover", "Bootstrap"}
         /\ m.cookie \in Receivers(vnode[m.to])) =>
            LET r == m.to
                s == vnode[r].syncs[m.cookie]
                x == handler_sync_send(Ctx(r), r, m)
                applied == storage_set_remote(Ctx(r), r, m.key, m.container)
                again == storage_set_remote(x, r, m.key, m.container)
            IN /\ Alive(x)
               /\ Stored(x.vn) = Stored(applied.vn)
               /\ again.vn.storage = x.vn.storage
               /\ x.out = {MsgSyncAck(r, s.peer, m.cookie, m.seq)}
               /\ x.vn.syncs = [vnode[r].syncs EXCEPT
                                    ![m.cookie].count = s.count + 1,
                                    ![m.cookie].last_receive = now]

C29_Step ==
    \A a \in net' \ net : a.type = "SyncAck" =>
        \E m \in net \ net' :
            /\ m.type = "SyncSend" /\ m.to = a.from
            /\ m.cookie = a.cookie /\ m.seq = a.seq
            /\ Stored(vnode'[m.to]) =
                   Stored(storage_set_remote(Ctx(m.to), m.to, m.key, m.container).vn)

\* C29: a receiver that takes a SyncSend for one of its sessions stores the entry
\* with storage_set_remote, replies one SyncAck with the cookie and the seq of the
\* message, adds one to count and sets last_receive to now; a SyncAck enters the
\* fabric only in a step that handled the SyncSend of its cookie and seq and
\* stored its entry.
C29_AckAfterApply == []C29_Inv /\ [][C29_Step]_vars

\* a receiver has stored an entry and counted it, and its SyncAck is on the way
C29_Witness ==
    \E a \in net :
        /\ a.type = "SyncAck"
        /\ a.cookie \in Receivers(vnode[a.from])
        /\ vnode[a.from].syncs[a.cookie].count > 0
        /\ vnode[a.from].storage # new_empty("Absent").storage

\* what handler_sync_fin does with the SyncFin m at a SyncReceiver, as claimed
FinAsClaimed(m, pick) ==
    LET r == m.to
        vn == vnode[r]
        s == vn.syncs[m.cookie]
        x == handler_sync_fin(Ctx(r), r, m, pick)
        joined == BVVJoin(vn.clocks, m.result.bvv)
    IN /\ Alive(x)
       /\ m.cookie \notin DOMAIN x.vn.syncs
       /\ IF m.result.ok
          THEN /\ x.vn.clocks \in {joined, BVVAdvance(joined, r, RECOVER_FAST_FORWARD)}
               /\ MsgSyncFin(r, s.peer, m.cookie, m.result) \in x.out
          ELSE /\ x.vn.clocks = vn.clocks
               /\ x.vn.storage = vn.storage
               /\ DOMAIN x.vn.syncs = DOMAIN vn.syncs \ {m.cookie}
               /\ {o \in x.out : o.type = "SyncStart"} = {}

\* C30: a SyncReceiver that handles a SyncFin is removed; a success SyncFin has its
\* clocks joined into the vnode's clocks and is sent back to the peer, an error
\* SyncFin leaves clocks and storage as they are and starts no new session.
C30_ReceiverFin ==
    \A m \in net :
        (/\ Deliverable(m, "SyncFin")
         /\ vnode[m.to].status \in StatusAllowed("SyncFin")
         /\ m.cookie \in DOMAIN vnode[m.to].syncs
         /\ vnode[m.to].syncs[m.cookie].kind = "SyncReceiver") =>
            \A pick \in Picks(m.to) : FinAsClaimed(m, pick)

----------------------------------------------------------------------------
(* The bootstrap retry: node 2 joins while node 1 may leave *)

RetryMaxCookie == 3

NextRetry ==
    /\ \/ HandlerDhtChange(2, "Ready")
       \/ HandlerDhtChange(1, "Absent")
       \/ HandlerTick(2)
       \/ \E m \in net : HandlerSyncStart(m)
       \/ \E m \in net : HandlerSyncFin(m)
       \/ AdvanceTime(BootStep)
    /\ now' <= BootMaxTime /\ nextCookie' <= RetryMaxCookie + 1

SpecRetry == InitBoot /\ [][NextRetry]_vars

BootstrapReceivers(vn) ==
    {c \in DOMAIN vn.syncs : vn.syncs[c].kind = "BootstrapReceiver"}

\* the vnode of node n after a handler that retried the bootstrap of session c
Retried(n, c, x) ==
    /\ Alive(x)
    /\ c \notin DOMAIN x.vn.syncs
    /\ IF nodes_for_vnode(FALSE) \ {n} # {}
       THEN /\ x.vn.status = "Bootstrap"
            /\ Receivers(x.vn) = {nextCookie}
            /\ nextCookie # c
            /\ x.vn.syncs[nextCookie].kind = "BootstrapReceiver"
            /\ x.vn.syncs[nextCookie].peer \in nodes_for_vnode(FALSE) \ {n}
       ELSE /\ x.vn.status = "Ready"
            /\ Receivers(x.vn) = {}

FinErrors == {"BadVNodeStatus", "CookieNotFound"}

\* C31: a BootstrapReceiver that is handed an error SyncFin, or that a tick finds
\* quiet for more than SYNC_TIMEOUT_MS, is removed and start_bootstrap runs again:
\* the vnode is left in Bootstrap with exactly one receiver, a BootstrapReceiver
\* under a new cookie, or Ready without a receiver when no other replica exists.
C31_RetryBootstrap ==
    \A n \in Node : Running(n) =>
        \A c \in BootstrapReceivers(vnode[n]) : \A pick \in Picks(n) :
            LET s == vnode[n].syncs[c]
            IN /\ \A e \in FinErrors :
                      Retried(n, c, handler_sync_fin(Ctx(n), n,
                                        MsgSyncFin(s.peer, n, c, Err(e)), pick))
               /\ Elapsed(s.last_receive) > SYNC_TIMEOUT_MS =>
                      Retried(n, c, handler_tick(Ctx(n), n, pick))

\* a BootstrapReceiver that timed out while another replica is there and one that
\* timed out after the last replica left, each retried by the tick
C31_Witness ==
    \E n \in Node : \E c \in BootstrapReceivers(vnode[n]) : \E pick \in Picks(n) :
        /\ Running(n)
        /\ Elapsed(vnode[n].syncs[c].last_receive) > SYNC_TIMEOUT_MS
        /\ nodes_for_vnode(FALSE) \ {n} # {}
        /\ handler_tick(Ctx(n), n, pick).vn.status = "Bootstrap"
        /\ BootstrapReceivers(handler_tick(Ctx(n), n, pick).vn) = {nextCookie}

----------------------------------------------------------------------------
(* The sender at a tick: claims, under SpecBoot *)

OfSession(msgs, n, c) == {m \in msgs : m.from = n /\ m.cookie = c}

C32_Inv ==
    \A n \in Node : Running(n) =>
        \A c \in Senders(vnode[n]) : \A pick \in Picks(n) :
            LET s == vnode[n].syncs[c]
                x == handler_tick(Ctx(n), n, pick)
                sent == send_next(Ctx(n), n, c)
            IN /\ Alive(x)
               /\ IF Elapsed(s.last_receive) > SYNC_TIMEOUT_MS
                  THEN /\ c \notin DOMAIN x.vn.syncs
                       /\ OfSession(x.out, n, c) = {}
                  ELSE /\ c \in DOMAIN x.vn.syncs
                       /\ x.vn.syncs[c] = sent.vn.syncs[c]
                       /\ x.vn.syncs[c].last_receive = s.last_receive
                       /\ OfSession(x.out, n, c) = sent.out

C32_Step ==
    \A n \in Node : \A c \in Senders(vnode[n]) \cap Senders(vnode'[n]) :
        vnode'[n].syncs[c].last_receive # vnode[n].syncs[c].last_receive =>
            /\ vnode'[n].syncs[c].last_receive = now
            /\ \E m \in net \ net' : m.type = "SyncAck" /\ m.to = n /\ m.cookie = c

\* C32: a tick removes a sender whose last_receive is more than SYNC_TIMEOUT_MS
\* old and sends nothing for it; for any other sender the tick does what send_next
\* does and keeps the session; the last_receive of a sender changes only in a step
\* that handles a SyncAck of its cookie.
C32_SenderTick == []C32_Inv /\ [][C32_Step]_vars

\* a sender with an entry in flight that has handled no ack for more than
\* SYNC_TIMEOUT_MS
C32_Witness ==
    \E n \in Node : \E c \in Senders(vnode[n]) :
        /\ Running(n)
        /\ Elapsed(vnode[n].syncs[c].last_receive) > SYNC_TIMEOUT_MS
        /\ vnode[n].syncs[c].inflight # EmptyMap

----------------------------------------------------------------------------
(* The retransmitted SyncStart: claims, under SpecBoot *)

StartsOf(msgs, n, c) == {m \in msgs : m.type = "SyncStart" /\ m.from = n /\ m.cookie = c}

\* the first two parts of C33: when a tick sends SyncStart again, and what a vnode
\* that holds the cookie does with a SyncStart
C33_Inv ==
    /\ \A n \in Node : Running(n) =>
          \A c \in Receivers(vnode[n]) : \A pick \in Picks(n) :
              LET s == vnode[n].syncs[c]
                  x == handler_tick(Ctx(n), n, pick)
              IN StartsOf(x.out, n, c) # {} =>
                     /\ s.count = 0
                     /\ Elapsed(s.last_receive) > SYNC_INFLIGHT_TIMEOUT_MS
                     /\ StartsOf(x.out, n, c) = send_start(Ctx(n), n, c).out
    /\ \A m \in net :
          (Deliverable(m, "SyncStart") /\ SyncStartAllowed(vnode[m.to])
             /\ m.cookie \in DOMAIN vnode[m.to].syncs) =>
              handler_sync_start(Ctx(m.to), m.to, m) = Ctx(m.to)

\* a sender session appears only for a cookie this node has streamed nothing for
C33_Step ==
    \A n \in Node : \A c \in Senders(vnode'[n]) \ DOMAIN vnode[n].syncs :
        {m \in net : m.from = n /\ m.cookie = c
                       /\ (m.type = "SyncSend" \/ (m.type = "SyncFin" /\ m.result.ok))} = {}

\* C33: the SyncStart a receiver sends again while its count is 0 never starts a
\* second sender session for the cookie: no step creates a sender session under a
\* cookie for which this node has already sent a SyncSend or its success SyncFin,
\* so the iterator of a cookie is never restarted.
C33_StartOnce == [][C33_Step]_vars

----------------------------------------------------------------------------
(* The bookkeeping of the receivers: claims, under SpecSess *)

ForwardReceivers(vn) ==
    {c \in DOMAIN vn.syncs : vn.syncs[c].kind = "SyncReceiver"
                               /\ vn.syncs[c].target = vn.syncs[c].peer}

ReverseReceivers(n, vn) ==
    {c \in DOMAIN vn.syncs : vn.syncs[c].kind = "SyncReceiver"
                               /\ vn.syncs[c].target = n}

\* C34: after every handler sync_nodes is the set of the peers of the SyncReceivers
\* with target = peer, no two of which have the same peer, and pending_recoveries
\* is the number of SyncReceivers with target = self.
C34_Bookkeeping ==
    \A n \in Node : Running(n) =>
        LET vn == vnode[n]
        IN /\ vn.sync_nodes = {vn.syncs[c].peer : c \in ForwardReceivers(vn)}
           /\ \A c, d \in ForwardReceivers(vn) :
                  vn.syncs[c].peer = vn.syncs[d].peer => c = d
           /\ vn.pending_recoveries = Cardinality(ReverseReceivers(n, vn))

\* node 1 syncs forward from node 2 and counts it in sync_nodes while node 2,
\* restarted, recovers through a reverse receiver
C34_Witness ==
    /\ Running(1) /\ vnode[1].sync_nodes = {2} /\ ForwardReceivers(vnode[1]) # {}
    /\ Running(2) /\ vnode[2].pending_recoveries = 1
    /\ ReverseReceivers(2, vnode[2]) # {}

----------------------------------------------------------------------------
(* The clocks of a sync session: claims, under SpecRecover *)

\* the step starts the receiver of the SyncStart m at node n
StartsReceiver(n, m) ==
    /\ m.type = "SyncStart" /\ m.from = n /\ m.target # None
    /\ m \in net' \ net
    /\ m.cookie \in DOMAIN vnode'[n].syncs
    /\ ~(up[n] /\ m.cookie \in DOMAIN vnode[n].syncs)

\* the step starts the SyncSender of cookie c at node r
StartsSender(r, c) ==
    /\ c \in DOMAIN vnode'[r].syncs /\ c \notin DOMAIN vnode[r].syncs
    /\ vnode'[r].syncs[c].kind = "SyncSender"

C35_Step ==
    /\ \A n \in Node : \A m \in net' :
          StartsReceiver(n, m) =>
              m.clock_in_peer.some = vnode'[n].clocks[m.target.some]
    /\ \A r \in Node : \A c \in DOMAIN vnode'[r].syncs :
          StartsSender(r, c) =>
              LET s == vnode'[r].syncs[c]
              IN /\ s.clock_snapshot = vnode[r].clocks[s.target]
                 /\ \A f \in SuccessFins(net', r, c) :
                        f.result.bvv[s.target] = vnode[r].clocks[s.target]

\* C35: the clock_in_peer of the SyncStart that starts a SyncReceiver is the
\* receiver's clock for the target node, and the SyncSender started by it keeps,
\* and reports under target in its success SyncFin, its own clock for the target
\* node, in forward and in reverse syncs.
C35_ClocksOfTarget == [][C35_Step]_vars

----------------------------------------------------------------------------
(* The recovery scan: claims, under SpecStore *)

\* VNodeState::load(Ready, is_create = false) on what node n has on disk
Reloaded(n) == load([Ctx(n) EXCEPT !.vn = Down(vnode[n])], n, "Ready", FALSE)

\* the dot (node, version) of key is covered by the clocks of vn and logged
Recovered(vn, self, key, node, version) ==
    /\ BVContains(vn.clocks[node], version)
    /\ PeerGet(IF node = self THEN vn.log ELSE vn.peers[node], version) = Some(key)

\* C36: a vnode that stops without save(shutdown = true) has clean_shutdown = false
\* saved, and loading it with status Ready and is_create = false gives Recover
\* with every dot found in storage covered by clocks and logged under its node,
\* own dots in log and the dots of another node in peers[node].
C36_RecoverScan ==
    \A n \in Node : (Running(n) /\ n \in dht.owners) =>
        /\ meta[n] # NoMeta
        /\ ~meta[n].clean_shutdown
        /\ Alive(Reloaded(n))
        /\ Reloaded(n).vn.status = "Recover"
        /\ \A key \in DOMAIN vnode[n].storage :
               \A x \in DccVersions(vnode[n].storage[key]) :
                   Recovered(Reloaded(n).vn, n, key, x[1], x[2])

----------------------------------------------------------------------------
(* The end of a session on both sides: node 2 joins, both nodes may leave   *)
(* and, after ZOMBIE_TIMEOUT_MS, drop the vnode.                            *)

FinsMaxCookie == 2

NextFins ==
    /\ \/ HandlerDhtChange(2, "Ready")
       \/ \E n \in {1, 2} : HandlerDhtChange(n, "Absent")
       \/ \E n \in {1, 2} : HandlerTick(n)
       \/ \E m \in net : HandlerSyncStart(m)
       \/ \E m \in net : HandlerSyncFin(m)
       \/ AdvanceTime(GateStep)
    /\ now' <= GateMaxTime /\ nextCookie' <= FinsMaxCookie + 1

SpecFins == InitBoot /\ [][NextFins]_vars

\* the SyncFin messages that node r sends when it handles m and stays as it is
FinReplies(r, m) ==
    {f \in UNION {IF handler_sync_fin(Ctx(r), r, m, pick).vn = vnode[r]
                  THEN handler_sync_fin(Ctx(r), r, m, pick).out ELSE {}
                  : pick \in Picks(r)} : f.type = "SyncFin"}

\* C37: the exchange of SyncFin messages of a cookie comes to an end: in no state
\* does a vnode answer an error SyncFin with a SyncFin that the other vnode
\* answers with the first one again, both staying as they are; and a sender that
\* handles a SyncFin of its cookie, success or error, is removed.
C37_FinsEnd ==
    /\ \A m \in net :
          (Deliverable(m, "SyncFin") /\ ~m.result.ok /\ Running(m.from)) =>
              \A f \in FinReplies(m.to, m) : m \notin FinReplies(f.to, f)
    /\ \A m \in net :
          (Deliverable(m, "SyncFin") /\ m.cookie \in Senders(vnode[m.to])
             /\ vnode[m.to].status \in StatusAllowed("SyncFin")) =>
              \A pick \in Picks(m.to) :
                  m.cookie \notin DOMAIN handler_sync_fin(Ctx(m.to), m.to, m, pick).vn.syncs

----------------------------------------------------------------------------
(* The assertions of the status bookkeeping: claims, under SpecSess *)

StatusAsserts == {"set_status: pending_recoveries", "set_status: sync_nodes",
                  "on_remove: status", "start_bootstrap: status"}

\* the results a SyncFin can carry to node n
FinResults(n) == {OkBvv(vnode[n].clocks)} \cup {Err(e) : e \in FinErrors}

\* no run on node n of a handler that changes the status or removes a session
\* fails one of the assertions
StatusRunsPass(n) ==
    \A pick \in Picks(n) :
        /\ handler_tick(Ctx(n), n, pick).panic \notin StatusAsserts
        /\ \A x_status \in {"Ready", "Absent"} :
               handler_dht_change(Ctx(n), n, x_status, pick).panic \notin StatusAsserts
        /\ \A c \in DOMAIN vnode[n].syncs : \A r \in FinResults(n) :
               handler_sync_fin(Ctx(n), n, MsgSyncFin(vnode[n].syncs[c].peer, n, c, r),
                                pick).panic \notin StatusAsserts

----------------------------------------------------------------------------
(* The writes of a recovering vnode: claims, under SpecRecover *)

\* C39: a vnode in Recover coordinates no client write: do_set takes no new dot
\* from clocks.event(self) and leaves the storage as it is.
C39_NoWriteInRecover ==
    \A n \in Node : (Running(n) /\ vnode[n].status = "Recover") =>
        \A k \in Key : \A v \in RecValues : \A vv \in ClientVV(n, k) :
            LET x == do_set(Ctx(n), n, nextToken, k, v, vv)
            IN /\ x.events = <<>>
               /\ x.vn.storage = vnode[n].storage
               /\ x.vn.clocks = vnode[n].clocks

----------------------------------------------------------------------------
(* The way out of Bootstrap: claims, under SpecBoot                        *)

\* the successful SyncFin messages that the step takes from the net for a
\* BootstrapReceiver of node n
TakenBootFins(n) ==
    {m \in net \ net' : /\ m.type = "SyncFin" /\ m.result.ok /\ m.to = n
                        /\ m.cookie \in BootstrapReceivers(vnode[n])}

\* a vnode in Bootstrap turns Ready in one step only by a successful SyncFin of its
\* BootstrapReceiver, or with no other replica to bootstrap from
C40_Step ==
    \A n \in Node :
        (vnode[n].status = "Bootstrap" /\ vnode'[n].status = "Ready") =>
            \/ TakenBootFins(n) # {}
            \/ nodes_for_vnode(FALSE) \ {n} = {}

\* the vnode of node n after handler_dht_change(Absent) and then
\* handler_dht_change(Ready)
Interrupted(n, pick) ==
    handler_dht_change(handler_dht_change(Ctx(n), n, "Absent", pick), n, "Ready", pick)

\* C40: a bootstrap interrupted by handler_dht_change(Absent) and followed by
\* handler_dht_change(Ready) does not make the vnode Ready with partially streamed
\* data: the vnode is Ready afterwards only if it holds every key of the replica
\* it was bootstrapping from.
C40_NoReadyAfterInterrupt ==
    \A n \in Node : (Running(n) /\ vnode[n].status = "Bootstrap") =>
        \A c \in BootstrapReceivers(vnode[n]) : \A pick \in Picks(n) :
            LET x == Interrupted(n, pick)
            IN (Alive(x) /\ x.vn.status = "Ready") =>
                  DOMAIN vnode[vnode[n].syncs[c].peer].storage
                      \subseteq DOMAIN x.vn.storage


============================================================================
